---- MODULE Spec2Model ----
(***************************************************************************)
(* Verification model of the engine core of rpg-01: the quadtree spatial   *)
(* index, the grid A* pathfinder, the ECS World (component store and       *)
(* system scheduler), the behaviour tree, the finite state machine and the *)
(* GOAP planner, the Brain that registers and ticks the strategies, the    *)
(* Blackboard they share and the AgentController that follows a path.      *)
(* Each subsystem has its own next-state relation and its own              *)
(* specification; the variables of the other subsystems stay at their      *)
(* initial value.                                                          *)
(***************************************************************************)
EXTENDS Integers, Sequences, FiniteSets, TLC

VARIABLES
    qt,         \* QuadTree: the root node (nested records)
    qtLast,     \* the last QuadTree.query call: [op, rect, found]
    wEntities,  \* World.entities: the ids in the entity table
    wNextEid,   \* World._next_eid: the next id of the counter
    wComponents,\* World.components: component type -> (entity id -> component)
    wCompKeys,  \* the keys of World.components in insertion order
    wIndex,     \* World._component_index: component type -> set of entity ids
    wEvents,    \* EventBus.event_queue: the published event types, oldest first
    wLast,      \* the last World call: [op, eid, ctype, val, prev, raised]
    wView,      \* the last World.view call: [types, kind, rows]
    uPc,        \* World.update: position of the calling thread
    uSystems,   \* World.update: the systems of this frame, in list order
    uParallel,  \* the systems of the frame that carry the _ecs_parallel flag
    uNext,      \* index of the next system to submit / to run sequentially
    uTask,      \* pool task of each parallel system: none/queued/running/done/failed
    uSeqLog,    \* the sequential systems run so far in this frame
    uOutcome,   \* how the last update call ended: none/returned/raised
    uRegistered,\* World.systems: the registered systems, sorted by order
    uRender,    \* the systems that carry the _ecs_render flag
    uArg,       \* the active_systems argument of the update call: [kind, list]
    uDrawLog,   \* the systems invoked by the last draw call, in order
    fTrans,     \* StateMachine.transitions: state name -> list of target names
    fCurrent,   \* StateMachine.current: a state name or "None"
    fPrev,      \* StateMachine.prev: a state name or "None"
    fLast,      \* the last StateMachine call: [op, start, guards, log, raised]
    btRoot,     \* BehaviourTree.root: the tree with its _running_index cursors
    btHist,     \* one record [status, events] per BehaviourTree.update call
    gActions,   \* GoapPlanner.actions: the registered actions, in list order
    gBB,        \* the global scope of the blackboard (the planner's world state)
    gPlan,      \* GoapPlanner._plan
    gIndex,     \* GoapPlanner._current_index
    gLast,      \* the last GoapPlanner call: [op, ret, executed, result, calls]
    aGrid,      \* GridAStar: [w, h, walls, diagonal]
    aQuery,     \* the arguments of find_path: [start, goal, tags]
    aResult,    \* what find_path returned: [kind, path], kind pending/path/none
    brEnemies,  \* Brain.enemies: the (id, strategy) items in insertion order
    brLast,     \* the last Brain call: [op, raised, ticked]
    bbGlobal,   \* Blackboard._global: key -> value
    bbAgents,   \* Blackboard._per_agent: agent id -> (key -> value)
    bbLock,     \* Blackboard._lock: 0 when free, else the thread that holds it
    bbThreads,  \* each thread's call in progress: [pc, op, loc, snap, ret]
    acPathTiles,\* AgentController.path_tiles
    acPathPx,   \* AgentController.path_px: the waypoints in pixels
    acPathIdx,  \* AgentController.path_idx: the progress cursor
    acMoving,   \* AgentController.moving
    acTarget,   \* AgentController.target_px, <<>> for None
    acLast,     \* the last AgentController call: [op, ret, arrived, followed, failed]
    plPc,       \* GoapPlanner.plan: idle, in the while loop, or done
    plGoal,     \* the goal argument of the plan call
    plOpen,     \* open_heap
    plClosed,   \* closed
    plExpanded, \* the state keys added to closed, in the order they were added
    plRet       \* what plan returned: [kind, path], kind pending/plan/none/raise

qtVars == <<qt, qtLast>>
ecsVars == <<wEntities, wNextEid, wComponents, wCompKeys, wIndex, wEvents, wLast, wView>>

schedVars == <<uPc, uSystems, uParallel, uNext, uTask, uSeqLog, uOutcome,
               uRegistered, uRender, uArg, uDrawLog>>

fsmVars == <<fTrans, fCurrent, fPrev, fLast>>

vars == <<qt, qtLast, wEntities, wNextEid, wComponents, wCompKeys, wIndex, wEvents, wLast, wView,
          uPc, uSystems, uParallel, uNext, uTask, uSeqLog, uOutcome,
          uRegistered, uRender, uArg, uDrawLog,
          fTrans, fCurrent, fPrev, fLast, btRoot, btHist,
          gActions, gBB, gPlan, gIndex, gLast, aGrid, aQuery, aResult,
          brEnemies, brLast, bbGlobal, bbAgents, bbLock, bbThreads,
          acPathTiles, acPathPx, acPathIdx, acMoving, acTarget, acLast,
          plPc, plGoal, plOpen, plClosed, plExpanded, plRet>>

btVars == <<btRoot, btHist>>
goapVars == <<gActions, gBB, gPlan, gIndex, gLast>>
astarVars == <<aGrid, aQuery, aResult>>
brainVars == <<brEnemies, brLast>>
\* the Brain and the services around it
bbVars == <<bbGlobal, bbAgents, bbLock, bbThreads>>
acVars == <<acPathTiles, acPathPx, acPathIdx, acMoving, acTarget, acLast>>
planVars == <<plPc, plGoal, plOpen, plClosed, plExpanded, plRet>>
serviceVars == <<brainVars, bbVars, acVars, planVars>>

(***************************************************************************)
(* Generic helpers                                                         *)
(***************************************************************************)
Range(s) == {s[i] : i \in 1..Len(s)}

RemoveAt(s, i) == SubSeq(s, 1, i - 1) \o SubSeq(s, i + 1, Len(s))

\* the sequences over S of length at most n
SeqsUpTo(S, n) == UNION {[1..k -> S] : k \in 0..n}

(***************************************************************************)
(* QuadTree (engine/world/quadtree.py)                                     *)
(***************************************************************************)
\* bounds of the model
QTSizes == {3, 4}       \* side lengths of the root bounds that are explored
RectMaxPos == 2         \* entity and query rects have x in 0..RectMaxPos
MaxEntries == 2         \* at most this many (id, rect) entries are stored
QTIds == {1, 2}         \* entity ids used with the quadtree
Capacity == 1           \* the capacity argument of the constructor
MaxDepth == 2           \* the max_depth argument of the constructor

\* the rects used as entity rects and as query areas: 2x2 squares, some
\* inside one quadrant of the root and some spanning two of them
RectSet == {<<x, y, 2, 2>> : x \in 0..RectMaxPos, y \in {0, 2}}

\* pygame.Rect.colliderect: overlap with exclusive edges; a rect of zero
\* width or height collides with nothing
colliderect(a, b) ==
    /\ a[3] # 0 /\ a[4] # 0 /\ b[3] # 0 /\ b[4] # 0
    /\ a[1] < b[1] + b[3] /\ b[1] < a[1] + a[3]
    /\ a[2] < b[2] + b[4] /\ b[2] < a[2] + a[4]

QuadTree(bounds, depth) ==
    [bounds |-> bounds, depth |-> depth, entities |-> <<>>,
     divided |-> FALSE, children |-> <<>>]

subdivide(n) ==
    LET x == n.bounds[1]
        y == n.bounds[2]
        hw == n.bounds[3] \div 2
        hh == n.bounds[4] \div 2
    IN [n EXCEPT !.children = << QuadTree(<<x, y, hw, hh>>, n.depth + 1),
                                 QuadTree(<<x + hw, y, hw, hh>>, n.depth + 1),
                                 QuadTree(<<x, y + hh, hw, hh>>, n.depth + 1),
                                 QuadTree(<<x + hw, y + hh, hw, hh>>, n.depth + 1) >>,
                 !.divided = TRUE]

\* insert returns [ok, node]: the return value and the node after the call
RECURSIVE insert(_, _, _)
RECURSIVE insertChildren(_, _, _, _)
insert(n, id, r) ==
    IF ~colliderect(n.bounds, r) THEN [ok |-> FALSE, node |-> n]
    ELSE IF Len(n.entities) < Capacity \/ n.depth >= MaxDepth
         THEN [ok |-> TRUE, node |-> [n EXCEPT !.entities = Append(@, <<id, r>>)]]
         ELSE insertChildren(IF n.divided THEN n ELSE subdivide(n), id, r, 1)

\* the loop "for child in self.children" of insert, from child i on
insertChildren(n, id, r, i) ==
    IF i > Len(n.children) THEN [ok |-> FALSE, node |-> n]
    ELSE LET res == insert(n.children[i], id, r)
             n2 == [n EXCEPT !.children[i] = res.node]
         IN IF res.ok THEN [ok |-> TRUE, node |-> n2]
            ELSE insertChildren(n2, id, r, i + 1)

\* index of the first local entry of id, 0 if there is none
FirstEntry(ents, id) ==
    IF \E i \in 1..Len(ents) : ents[i][1] = id
    THEN CHOOSE i \in 1..Len(ents) :
            /\ ents[i][1] = id
            /\ \A j \in 1..(i - 1) : ents[j][1] # id
    ELSE 0

RECURSIVE remove(_, _)
RECURSIVE removeChildren(_, _, _)
remove(n, id) ==
    LET i == FirstEntry(n.entities, id)
    IN IF i # 0 THEN [ok |-> TRUE, node |-> [n EXCEPT !.entities = RemoveAt(@, i)]]
       ELSE IF n.divided THEN removeChildren(n, id, 1)
       ELSE [ok |-> FALSE, node |-> n]

removeChildren(n, id, i) ==
    IF i > Len(n.children) THEN [ok |-> FALSE, node |-> n]
    ELSE LET res == remove(n.children[i], id)
         IN IF res.ok THEN [ok |-> TRUE, node |-> [n EXCEPT !.children[i] = res.node]]
            ELSE removeChildren(n, id, i + 1)

\* the ids appended to "found" by the loop over the local entries
RECURSIVE queryLocal(_, _)
queryLocal(ents, area) ==
    IF ents = <<>> THEN <<>>
    ELSE (IF colliderect(area, Head(ents)[2]) THEN <<Head(ents)[1]>> ELSE <<>>)
         \o queryLocal(Tail(ents), area)

RECURSIVE query(_, _)
RECURSIVE queryChildren(_, _, _)
query(n, area) ==
    IF ~colliderect(n.bounds, area) THEN <<>>
    ELSE queryLocal(n.entities, area)
         \o (IF n.divided THEN queryChildren(n, area, 1) ELSE <<>>)

queryChildren(n, area, i) ==
    IF i > Len(n.children) THEN <<>>
    ELSE query(n.children[i], area) \o queryChildren(n, area, i + 1)

\* every (id, rect) entry of the tree, node by node
RECURSIVE AllEntries(_)
RECURSIVE AllEntriesChildren(_, _)
AllEntries(n) == n.entities \o AllEntriesChildren(n, 1)

AllEntriesChildren(n, i) ==
    IF i > Len(n.children) THEN <<>>
    ELSE AllEntries(n.children[i]) \o AllEntriesChildren(n, i + 1)

QtIdle == [op |-> "none", rect |-> <<0, 0, 0, 0>>, found |-> <<>>]

QtInit ==
    /\ \E s \in QTSizes : qt = QuadTree(<<0, 0, s, s>>, 0)
    /\ qtLast = QtIdle

\* the tree of the specifications that make no QuadTree call
QtDefault ==
    /\ qt = QuadTree(<<0, 0, 4, 4>>, 0)
    /\ qtLast = QtIdle

QtInsert ==
    /\ Len(AllEntries(qt)) < MaxEntries
    /\ \E id \in QTIds, r \in RectSet :
         /\ qt' = insert(qt, id, r).node
         /\ qtLast' = QtIdle
         /\ UNCHANGED <<ecsVars, schedVars, fsmVars, btVars, goapVars, astarVars, serviceVars>>

QtRemove ==
    \E id \in QTIds :
       /\ qt' = remove(qt, id).node
       /\ qtLast' = QtIdle
       /\ UNCHANGED <<ecsVars, schedVars, fsmVars, btVars, goapVars, astarVars, serviceVars>>

\* update returns [ok, node]: remove, then the result of insert
update(n, id, r) == insert(remove(n, id).node, id, r)

QtUpdate ==
    \E id \in QTIds :
       /\ Len(AllEntries(remove(qt, id).node)) < MaxEntries
       /\ \E r \in RectSet :
                /\ qt' = update(qt, id, r).node
                /\ qtLast' = QtIdle
                /\ UNCHANGED <<ecsVars, schedVars, fsmVars, btVars, goapVars, astarVars, serviceVars>>

QtQuery ==
    \E area \in RectSet :
       /\ qt' = qt
       /\ qtLast' = [op |-> "query", rect |-> area, found |-> query(qt, area)]
       /\ UNCHANGED <<ecsVars, schedVars, fsmVars, btVars, goapVars, astarVars, serviceVars>>

NextQT == QtInsert \/ QtRemove \/ QtUpdate \/ QtQuery

\* C1: after any insert/remove/update sequence, query(R) returns exactly the
\* ids of the stored entries whose rect intersects R (stated for the trees in
\* which every id has one entry, so that it does not depend on C10)
StoredIds == {AllEntries(qt)[i][1] : i \in 1..Len(AllEntries(qt))}

Intersecting(area) ==
    {AllEntries(qt)[i][1] : i \in {j \in 1..Len(AllEntries(qt)) : colliderect(area, AllEntries(qt)[j][2])}}

C1_QueryExact ==
    (qtLast.op = "query" /\ Cardinality(StoredIds) = Len(AllEntries(qt)))
        => Range(qtLast.found) = Intersecting(qtLast.rect)

\* C10: every stored id has exactly one (id, rect) entry in the whole tree
C10_OneEntryPerId ==
    \A i, j \in 1..Len(AllEntries(qt)) :
        AllEntries(qt)[i][1] = AllEntries(qt)[j][1] => i = j

\* C11: on every reachable tree, insert(id, rect) returns true exactly when
\* rect intersects the root bounds; a refused insert leaves the tree as it
\* was and an accepted one stores the entry
C11_InsertAcceptsIntersecting ==
    \A id \in QTIds, r \in RectSet :
        LET res == insert(qt, id, r)
        IN /\ res.ok = colliderect(qt.bounds, r)
           /\ ~res.ok => res.node = qt
           /\ res.ok => <<id, r>> \in Range(AllEntries(res.node))

\* the entries of id in the tree n
EntriesOf(n, id) == SelectSeq(AllEntries(n), LAMBDA e : e[1] = id)

\* C32: on every reachable tree, update(id, new_rect) of an id that is
\* stored (once) leaves it stored exactly once, with new_rect
C32_UpdateKeepsEntity ==
    \A id \in QTIds, r \in RectSet :
        Len(EntriesOf(qt, id)) = 1
            => EntriesOf(update(qt, id, r).node, id) = << <<id, r>> >>

\* every node of the tree
RECURSIVE Nodes(_)
Nodes(n) == {n} \cup UNION {Nodes(n.children[i]) : i \in 1..Len(n.children)}

\* the unit cells inside a rect
Cells(b) == {<<i, j>> : i \in b[1]..(b[1] + b[3] - 1), j \in b[2]..(b[2] + b[4] - 1)}

\* the children of n are four rects of one size that do not overlap and
\* cover the bounds of n
Quadrants(n) ==
    /\ Len(n.children) = 4
    /\ \A i, j \in 1..4 :
          /\ n.children[i].bounds[3] = n.children[j].bounds[3]
          /\ n.children[i].bounds[4] = n.children[j].bounds[4]
          /\ i # j => Cells(n.children[i].bounds) \cap Cells(n.children[j].bounds) = {}
    /\ UNION {Cells(n.children[i].bounds) : i \in 1..4} = Cells(n.bounds)

\* C31: every subdivided node has exactly four children of equal size that
\* do not overlap and together cover the bounds of the node
C31_ChildrenPartitionBounds ==
    \A n \in Nodes(qt) : n.divided => Quadrants(n)

(***************************************************************************)
(* World: entities and components (engine/world/world.py)                  *)
(***************************************************************************)
MaxEid == 1             \* create_entity is explored for ids 0..MaxEid-1
MaxEvents == 1          \* the event queue is dispatched before it grows longer
CTypes == {"A", "B"}    \* component types
CVals == {1, 2}         \* distinguishable instances of one component type

Eids == 0..(MaxEid - 1)

\* dict helpers: a dict is a function whose DOMAIN is its key set
DictSet(d, k, v) == [x \in DOMAIN d \cup {k} |-> IF x = k THEN v ELSE d[x]]
DictPop(d, k) == [x \in DOMAIN d \ {k} |-> d[x]]
EmptyDict == [x \in {} |-> 0]

\* defaultdict access self.components[ctype]: a missing key is created
TouchKey(keys, ct) == IF ct \in Range(keys) THEN keys ELSE Append(keys, ct)

EcsIdle == [op |-> "none", eid |-> 0, ctype |-> "", val |-> 0, prev |-> 0, raised |-> FALSE]

ViewIdle == [types |-> <<>>, kind |-> "none", rows |-> <<>>]

EcsInit ==
    /\ wView = ViewIdle
    /\ wEntities = {}
    /\ wNextEid = 0
    /\ wComponents = [ct \in CTypes |-> EmptyDict]
    /\ wCompKeys = <<>>
    /\ wIndex = [ct \in CTypes |-> {}]
    /\ wEvents = <<>>
    /\ wLast = EcsIdle

\* EventBus.publish(event_type, data=None) accepts no other keyword: the
\* calls publish(.., entity_id=..) of the World raise TypeError
publish(ev) == wEvents' = Append(wEvents, ev)

create_entity ==
    /\ wEntities' = wEntities \cup {wNextEid}
    /\ wNextEid' = wNextEid + 1
    /\ publish("ENTITY_SPAWNED")
    /\ wLast' = [EcsIdle EXCEPT !.op = "create_entity"]
    /\ UNCHANGED <<wComponents, wCompKeys, wIndex>>

add_component_noindex(eid, ct, v) ==
    /\ wComponents' = [wComponents EXCEPT ![ct] = DictSet(@, eid, v)]
    /\ wCompKeys' = TouchKey(wCompKeys, ct)
    /\ wIndex' = wIndex
    /\ publish("COMPONENT_ADDED")
    /\ wLast' = [EcsIdle EXCEPT !.op = "add_component", !.eid = eid, !.ctype = ct, !.val = v,
                                !.prev = IF eid \in DOMAIN wComponents[ct] THEN wComponents[ct][eid] ELSE 0]
    /\ UNCHANGED <<wEntities, wNextEid>>

add_component(eid, ct, v) ==
    /\ wComponents' = [wComponents EXCEPT ![ct] = DictSet(@, eid, v)]
    /\ wCompKeys' = TouchKey(wCompKeys, ct)
    /\ wIndex' = [wIndex EXCEPT ![ct] = @ \cup {eid}]
    /\ publish("COMPONENT_ADDED")
    /\ wLast' = [EcsIdle EXCEPT !.op = "add_component", !.eid = eid, !.ctype = ct, !.val = v,
                                !.prev = IF eid \in DOMAIN wComponents[ct] THEN wComponents[ct][eid] ELSE 0]
    /\ UNCHANGED <<wEntities, wNextEid>>

\* remove_component pops and discards, then its publish call raises TypeError
remove_component(eid, ct, op) ==
    /\ wComponents' = [wComponents EXCEPT ![ct] = DictPop(@, eid)]
    /\ wCompKeys' = TouchKey(wCompKeys, ct)
    /\ wIndex' = [wIndex EXCEPT ![ct] = @ \ {eid}]
    /\ wLast' = [EcsIdle EXCEPT !.op = op, !.raised = TRUE]
    /\ UNCHANGED <<wEntities, wNextEid, wEvents>>

\* remove_entity: the first remove_component of the loop raises; with no
\* component type known yet the id is popped and the publish call raises
remove_entity(eid) ==
    IF wCompKeys # <<>>
    THEN remove_component(eid, wCompKeys[1], "remove_entity")
    ELSE /\ wEntities' = wEntities \ {eid}
         /\ wLast' = [EcsIdle EXCEPT !.op = "remove_entity", !.raised = TRUE]
         /\ UNCHANGED <<wNextEid, wComponents, wCompKeys, wIndex, wEvents>>

\* EventBus.dispatch: drains the queue
dispatch ==
    /\ wEvents # <<>>
    /\ wEvents' = <<>>
    /\ UNCHANGED <<wEntities, wNextEid, wComponents, wCompKeys, wIndex, wLast>>

EcsFrame == UNCHANGED <<qtVars, schedVars, fsmVars, btVars, goapVars, astarVars, serviceVars, wView>>

WorldCreateEntity == wNextEid < MaxEid /\ Len(wEvents) < MaxEvents /\ create_entity /\ EcsFrame

WorldAddComponent ==
    /\ Len(wEvents) < MaxEvents
    /\ \E eid \in Eids, ct \in CTypes, v \in CVals : add_component(eid, ct, v)
    /\ EcsFrame

WorldRemoveComponent ==
    /\ \E eid \in Eids, ct \in CTypes : remove_component(eid, ct, "remove_component")
    /\ EcsFrame

WorldRemoveEntity == (\E eid \in Eids : remove_entity(eid)) /\ EcsFrame

EventBusDispatch == dispatch /\ EcsFrame

NextECS ==
    WorldCreateEntity \/ WorldAddComponent \/ WorldRemoveComponent \/ WorldRemoveEntity \/ EventBusDispatch

\* C3: for every component type the index set equals the key set of the
\* instance map, and an add_component leaves its component as the single
\* instance of that type for the id (a second add replaces the first)
C3_IndexMatchesStore ==
    /\ \A ct \in CTypes : wIndex[ct] = DOMAIN wComponents[ct]
    /\ wLast.op = "add_component" =>
          /\ wLast.eid \in wIndex[wLast.ctype]
          /\ wComponents[wLast.ctype][wLast.eid] = wLast.val

C3_Witness ==
    /\ wLast.op = "add_component" /\ wLast.prev # 0 /\ wLast.prev # wLast.val
    /\ wComponents[wLast.ctype][wLast.eid] = wLast.val
    /\ \E ct \in CTypes : wIndex[ct] = {} /\ ct \in Range(wCompKeys)

\* C14: remove_entity(id) for an id that is not (or no longer) in the entity
\* table and holds no component completes without raising and leaves the
\* entity table, the component store and the component index unchanged
C14_RemoveAbsentStep ==
    \A eid \in Eids :
        (/\ eid \notin wEntities
         /\ \A ct \in CTypes : eid \notin DOMAIN wComponents[ct]
         /\ remove_entity(eid))
        => (~wLast'.raised /\ UNCHANGED <<wEntities, wComponents, wIndex>>)

C14_SecondRemoveIsNoop == [][C14_RemoveAbsentStep]_vars

\* C38: every entity id that appears in the component store or in a
\* component index is a live entity (it is in the entity table)
C38_ComponentsOnLiveEntities ==
    \A ct \in CTypes : /\ DOMAIN wComponents[ct] \subseteq wEntities
                       /\ wIndex[ct] \subseteq wEntities

(***************************************************************************)
(* World: the spatial index (engine/world/world.py)                        *)
(***************************************************************************)
\* world.quadtree.insert(eid, rect): the World fills its quadtree through
\* no method of its own
WorldQuadtreeInsert ==
    /\ Len(AllEntries(qt)) < MaxEntries
    /\ \E eid \in Eids, r \in RectSet : qt' = insert(qt, eid, r).node
    /\ qtLast' = QtIdle
    /\ UNCHANGED <<ecsVars, schedVars, fsmVars, btVars, goapVars, astarVars, serviceVars>>

\* query_area(rect) returns self.quadtree.query(rect)
WorldQueryArea ==
    /\ \E area \in RectSet : qtLast' = [op |-> "query", rect |-> area, found |-> query(qt, area)]
    /\ qt' = qt
    /\ UNCHANGED <<ecsVars, schedVars, fsmVars, btVars, goapVars, astarVars, serviceVars>>

NextSpatial ==
    WorldCreateEntity \/ WorldRemoveEntity \/ EventBusDispatch \/ WorldQuadtreeInsert \/ WorldQueryArea

\* C15: after remove_entity(id), query_area(R) returns id for no rectangle R
C15_RemoveEntityStep ==
    \A eid \in Eids :
        remove_entity(eid) => \A r \in RectSet : eid \notin Range(query(qt', r))

C15_RemovedFromSpatialIndex == [][C15_RemoveEntityStep]_vars

(***************************************************************************)
(* World.view (engine/world/world.py)                                      *)
(***************************************************************************)
MaxViewEid == 3         \* the stores of the view calls hold ids 0..MaxViewEid-1
MaxViewTypes == 2       \* a view call names at most this many component types

ViewEids == 0..(MaxViewEid - 1)

\* the elements of a set of ids in iteration order (ascending for the small
\* integers of a CPython set)
RECURSIVE IterSet(_)
IterSet(S) ==
    IF S = {} THEN <<>>
    ELSE LET lo == CHOOSE x \in S : \A y \in S : x <= y
         IN <<lo>> \o IterSet(S \ {lo})

\* min(sets, key=len): the first of the smallest sets
MinByLen(sets) ==
    sets[CHOOSE i \in 1..Len(sets) :
            /\ \A j \in 1..Len(sets) : Cardinality(sets[i]) <= Cardinality(sets[j])
            /\ \A j \in 1..(i - 1) : Cardinality(sets[j]) > Cardinality(sets[i])]

\* one yielded tuple (eid, comp_T1, .., comp_Tn); a missing component is 0
ViewRow(eid, comp_types) ==
    <<eid>> \o [i \in 1..Len(comp_types) |->
                  IF eid \in DOMAIN wComponents[comp_types[i]] THEN wComponents[comp_types[i]][eid] ELSE 0]

\* variant of view that yields the ids of the smallest index set unfiltered
view_unfiltered(comp_types) ==
    IF comp_types = <<>> THEN [types |-> comp_types, kind |-> "ValueError", rows |-> <<>>]
    ELSE LET sets == [i \in 1..Len(comp_types) |-> wIndex[comp_types[i]]]
             base == IterSet(MinByLen(sets))
         IN [types |-> comp_types, kind |-> "rows",
             rows |-> [k \in 1..Len(base) |-> ViewRow(base[k], comp_types)]]

\* list(world.view(*comp_types))
view(comp_types) ==
    IF comp_types = <<>> THEN [types |-> comp_types, kind |-> "ValueError", rows |-> <<>>]
    ELSE LET sets == [i \in 1..Len(comp_types) |-> wIndex[comp_types[i]]]
             base == IterSet(MinByLen(sets))
             hits == SelectSeq(base, LAMBDA eid : \A i \in 1..Len(sets) : eid \in sets[i])
         IN [types |-> comp_types, kind |-> "rows",
             rows |-> [k \in 1..Len(hits) |-> ViewRow(hits[k], comp_types)]]

\* the stores that add_component calls build: any assignment of components
\* to ids, with the index of each type equal to the key set of its store
ViewInit ==
    /\ wComponents \in [CTypes -> UNION {[D -> CVals] : D \in SUBSET ViewEids}]
    /\ wIndex = [ct \in CTypes |-> DOMAIN wComponents[ct]]
    /\ wCompKeys = SelectSeq(<<"A", "B">>, LAMBDA ct : wComponents[ct] # EmptyDict)
    /\ wEntities = ViewEids
    /\ wNextEid = MaxViewEid
    /\ wEvents = <<>>
    /\ wLast = EcsIdle
    /\ wView = ViewIdle

WorldView ==
    /\ \E comp_types \in SeqsUpTo(CTypes, MaxViewTypes) : wView' = view(comp_types)
    /\ UNCHANGED <<wEntities, wNextEid, wComponents, wCompKeys, wIndex, wEvents, wLast>>
    /\ UNCHANGED <<qtVars, schedVars, fsmVars, btVars, goapVars, astarVars, serviceVars>>

NextView == WorldView

\* the ids that hold a component of every requested type
HoldsAll(comp_types) ==
    {eid \in ViewEids : \A i \in 1..Len(comp_types) : eid \in DOMAIN wComponents[comp_types[i]]}

\* C13: view(T1..Tn) yields exactly one tuple (id, comp_T1, .., comp_Tn) for
\* each id that holds a component of every requested type and nothing for
\* any other id
C13_ViewExact ==
    wView.kind = "rows" =>
        /\ \A eid \in ViewEids :
              Cardinality({k \in 1..Len(wView.rows) : wView.rows[k][1] = eid})
                 = IF eid \in HoldsAll(wView.types) THEN 1 ELSE 0
        /\ \A k \in 1..Len(wView.rows) :
              /\ wView.rows[k][1] \in HoldsAll(wView.types)
              /\ wView.rows[k] = <<wView.rows[k][1]>> \o
                     [i \in 1..Len(wView.types) |-> wComponents[wView.types[i]][wView.rows[k][1]]]

\* entities {0:[A,B], 1:[A], 2:[B]}: view(A, B) yields only entity 0
C13_Witness ==
    /\ wView.kind = "rows" /\ wView.types = <<"A", "B">>
    /\ DOMAIN wComponents["A"] = {0, 1} /\ DOMAIN wComponents["B"] = {0, 2}
    /\ Len(wView.rows) = 1 /\ wView.rows[1][1] = 0

(***************************************************************************)
(* World.update: the system scheduler (engine/world/world.py)              *)
(***************************************************************************)
MaxSystems == 3         \* a frame has at most this many systems

SysIds == 1..MaxSystems

\* the declared order of a system: system s is registered with order=s
_ecs_order(s) == s

\* World.systems after _build_systems: n registered systems sorted by order
RegisteredSystems(n) == [i \in 1..n |-> i]

\* the active_systems argument: None, or a list
NoneArg == [kind |-> "None", list |-> <<>>]
ListArg(q) == [kind |-> "list", list |-> q]

\* no update or draw call has been made
SchedIdle ==
    /\ uPc = "idle"
    /\ uSystems = <<>>
    /\ uParallel = {}
    /\ uNext = 1
    /\ uTask = [s \in SysIds |-> "none"]
    /\ uSeqLog = <<>>
    /\ uOutcome = "none"
    /\ uArg = NoneArg
    /\ uDrawLog = <<>>

\* a World with MaxSystems registered systems, none of them a render system
SchedInit ==
    /\ SchedIdle
    /\ uRegistered = RegisteredSystems(MaxSystems)
    /\ uRender = {}

\* a World with any number of registered systems; any system may carry the
\* render flag
RenderInit ==
    /\ SchedIdle
    /\ \E n \in 0..MaxSystems : uRegistered = RegisteredSystems(n)
    /\ uRender \in SUBSET SysIds

SchedFrame == UNCHANGED <<qtVars, ecsVars, fsmVars, btVars, goapVars, astarVars, serviceVars,
                          uRegistered, uRender>>

\* the systems of the frame with / without the _ecs_parallel flag, in list order
parallel == SelectSeq(uSystems, LAMBDA s : s \in uParallel)
sequential == SelectSeq(uSystems, LAMBDA s : s \notin uParallel)

\* every future of the pool has finished (with a result or with an exception)
AllTasksFinished == \A s \in Range(parallel) : uTask[s] \in {"done", "failed"}

\* the lists passed as active_systems: systems in the order the caller
\* wrote them
ActiveLists ==
    {q \in SeqsUpTo(SysIds, MaxSystems) : \A i, j \in 1..Len(q) : q[i] = q[j] => i = j}

\* update(dt, active_systems): systems = active_systems or self.systems and
\* the partition loop; the pool is created next
UpdateCall ==
    /\ uPc = "idle"
    /\ \E arg \in {NoneArg} \cup {ListArg(q) : q \in ActiveLists} :
          /\ uArg' = arg
          /\ uSystems' = IF arg.kind = "None" \/ arg.list = <<>> THEN uRegistered ELSE arg.list
          /\ \E par \in SUBSET Range(uSystems') : uParallel' = par
    /\ uPc' = "submit"
    /\ uNext' = 1
    /\ uTask' = [s \in SysIds |-> "none"]
    /\ uSeqLog' = <<>>
    /\ uOutcome' = "none"
    /\ UNCHANGED uDrawLog
    /\ SchedFrame

\* pool.submit(s, ...) for the next parallel system
PoolSubmit ==
    /\ uPc = "submit"
    /\ uNext <= Len(parallel)
    /\ uTask' = [uTask EXCEPT ![parallel[uNext]] = "queued"]
    /\ uNext' = uNext + 1
    /\ UNCHANGED <<uPc, uSystems, uParallel, uSeqLog, uOutcome, uArg, uDrawLog>>
    /\ SchedFrame

\* a worker thread of the pool takes a queued task
WorkerStart ==
    /\ \E s \in SysIds :
          /\ uTask[s] = "queued"
          /\ uTask' = [uTask EXCEPT ![s] = "running"]
    /\ UNCHANGED <<uPc, uSystems, uParallel, uNext, uSeqLog, uOutcome, uArg, uDrawLog>>
    /\ SchedFrame

\* the system returns, or raises: the exception is kept in the future
\* object, which update has dropped
WorkerFinish ==
    /\ \E s \in SysIds, res \in {"done", "failed"} :
          /\ uTask[s] = "running"
          /\ uTask' = [uTask EXCEPT ![s] = res]
    /\ UNCHANGED <<uPc, uSystems, uParallel, uNext, uSeqLog, uOutcome, uArg, uDrawLog>>
    /\ SchedFrame

\* leaving the with block without waiting for the workers
PoolExitNoWait(toPc) ==
    /\ uPc = "submit"
    /\ uNext > Len(parallel)
    /\ uPc' = toPc
    /\ uNext' = 1
    /\ UNCHANGED <<uSystems, uParallel, uTask, uSeqLog, uOutcome, uArg, uDrawLog>>

\* leaving the with block: ThreadPoolExecutor.__exit__ is shutdown(wait=True),
\* which returns when every submitted task has finished
PoolExit(toPc) ==
    /\ uPc = "submit"
    /\ uNext > Len(parallel)
    /\ AllTasksFinished
    /\ uPc' = toPc
    /\ uNext' = 1
    /\ UNCHANGED <<uSystems, uParallel, uTask, uSeqLog, uOutcome, uArg, uDrawLog>>

PoolJoin == PoolExit("seq") /\ SchedFrame

\* the next sequential system runs on the calling thread; an exception it
\* raises propagates out of update
SequentialStep ==
    /\ uPc = "seq"
    /\ uNext <= Len(sequential)
    /\ uSeqLog' = Append(uSeqLog, sequential[uNext])
    /\ \/ uNext' = uNext + 1 /\ UNCHANGED <<uPc, uOutcome>>
       \/ uPc' = "idle" /\ uOutcome' = "raised" /\ uNext' = uNext
    /\ UNCHANGED <<uSystems, uParallel, uTask, uArg, uDrawLog>>
    /\ SchedFrame

UpdateReturn ==
    /\ uPc = "seq"
    /\ uNext > Len(sequential)
    /\ uPc' = "idle"
    /\ uOutcome' = "returned"
    /\ UNCHANGED <<uSystems, uParallel, uNext, uTask, uSeqLog, uArg, uDrawLog>>
    /\ SchedFrame

\* sorted(self.systems, key=lambda s: s._ecs_order): a stable sort
RECURSIVE sorted(_)
sorted(q) ==
    IF q = <<>> THEN <<>>
    ELSE LET rest == sorted(Tail(q))
             before == SelectSeq(rest, LAMBDA s : _ecs_order(s) < _ecs_order(Head(q)))
             after == SelectSeq(rest, LAMBDA s : _ecs_order(s) >= _ecs_order(Head(q)))
         IN before \o <<Head(q)>> \o after

\* draw(surface): the registered systems in ascending order, those with the
\* render flag are invoked; an exception of a system ends the call
WorldDraw ==
    /\ uPc = "idle"
    /\ LET render == SelectSeq(sorted(uRegistered), LAMBDA s : s \in uRender)
       IN \E k \in 0..Len(render) :
             /\ k = 0 => render = <<>>
             /\ uDrawLog' = SubSeq(render, 1, k)
    /\ UNCHANGED <<uPc, uSystems, uParallel, uNext, uTask, uSeqLog, uOutcome, uArg>>
    /\ SchedFrame

NextSched ==
    UpdateCall \/ PoolSubmit \/ WorkerStart \/ WorkerFinish \/ PoolJoin \/ SequentialStep \/ UpdateReturn

NextRender ==
    UpdateCall \/ PoolSubmit \/ WorkerStart \/ WorkerFinish \/ PoolJoin \/ SequentialStep
    \/ UpdateReturn \/ WorldDraw

\* C8: all parallel systems dispatched for the frame have finished before
\* the first sequential system of the frame starts
C8_BarrierBeforeSequential ==
    (uPc = "seq" \/ uSeqLog # <<>>) => AllTasksFinished

C8_Witness ==
    /\ uSeqLog # <<>>
    /\ Len(parallel) >= 2

\* C16: the sequential systems of a frame are invoked in ascending value of
\* their declared order, for the registered systems and for every
\* active_systems list
C16_SequentialAscending ==
    \A i, j \in 1..Len(uSeqLog) : i < j => _ecs_order(uSeqLog[i]) <= _ecs_order(uSeqLog[j])

\* C9: an error raised by a parallel system is surfaced to the caller of
\* update: update does not return normally when a parallel task has failed
\* (the World writes no log, so raising is the only way to surface it)
C9_ParallelFailureSurfaced ==
    uOutcome = "returned" => \A s \in Range(parallel) : uTask[s] # "failed"

\* the systems invoked so far by the update call: those run by the
\* sequential loop and those a worker of the pool has started
UpdateInvoked == Range(uSeqLog) \cup {s \in SysIds : uTask[s] \in {"running", "done", "failed"}}

\* C39: an update call that was given an active_systems list invokes no
\* system outside the list and, when it returns, has invoked every system of
\* the list; with an empty list it invokes none
C39_ExactlyActiveSystems ==
    uArg.kind = "list" =>
        /\ UpdateInvoked \subseteq Range(uArg.list)
        /\ uOutcome = "returned" => UpdateInvoked = Range(uArg.list)

\* C40: draw invokes only systems that carry the render flag, in ascending
\* order; update invokes no system that carries the render flag
C40_RenderSystemsOnlyInDraw ==
    /\ Range(uDrawLog) \subseteq uRender
    /\ \A i, j \in 1..Len(uDrawLog) : i < j => _ecs_order(uDrawLog[i]) <= _ecs_order(uDrawLog[j])
    /\ UpdateInvoked \cap uRender = {}

(***************************************************************************)
(* StateMachine (engine/behaviours/strategies/fsm.py)                      *)
(***************************************************************************)
MaxTransitions == 2     \* transitions registered per state

Registered == {"A", "B"}            \* the keys of StateMachine.states
TargetNames == {"A", "B", "Z"}      \* to_state names; "Z" is not registered
GuardResults == {"true", "false", "raise"}

\* the interpreter state threaded through one call: current, prev and the
\* callbacks and guards invoked so far
FsmSt(cur, prev, log, raised) == [current |-> cur, prev |-> prev, log |-> log, raised |-> raised]

\* set_state(state_name): exit of the old state, lookup, KeyError or enter
set_state(st, name) ==
    LET log1 == IF st.current # "None" THEN Append(st.log, <<"exit", st.current>>) ELSE st.log
    IN IF name \in Registered
       THEN FsmSt(name, st.current, Append(log1, <<"enter", name>>), FALSE)
       ELSE FsmSt("None", st.current, log1, TRUE)

\* the loop over the transitions of the state that was current when update
\* was called, from transition i on; a KeyError of set_state is raised
\* inside the try block and is swallowed like a failing guard
RECURSIVE evalTransitions(_, _, _, _)
evalTransitions(st, targets, guards, i) ==
    IF i > Len(targets) THEN st
    ELSE LET st1 == [st EXCEPT !.log = Append(@, <<"guard", i>>)]
         IN IF guards[i] = "true"
            THEN LET st2 == set_state(st1, targets[i])
                 IN IF st2.raised
                    THEN evalTransitions([st2 EXCEPT !.raised = FALSE], targets, guards, i + 1)
                    ELSE st2
            ELSE evalTransitions(st1, targets, guards, i + 1)

\* update(dt) that runs the update callback of the state it started in
sm_update_old(st, guards) ==
    IF st.current = "None" THEN st
    ELSE LET st1 == evalTransitions(st, fTrans[st.current], guards, 1)
         IN [st1 EXCEPT !.log = Append(@, <<"update", st.current>>)]

\* update(dt) that skips the update callback when a transition was taken
sm_update_skip(st, guards) ==
    IF st.current = "None" THEN st
    ELSE LET st1 == evalTransitions(st, fTrans[st.current], guards, 1)
         IN IF st1.current # "None" /\ \A i \in 1..Len(guards) : guards[i] # "true"
            THEN [st1 EXCEPT !.log = Append(@, <<"update", st1.current>>)]
            ELSE st1

\* update(dt) in which a raising guard ends the call with its error
sm_update_propagate(st, guards) ==
    LET stops == {i \in 1..Len(guards) :
                     guards[i] = "raise" /\ \A j \in 1..(i - 1) : guards[j] = "false"}
    IN IF st.current # "None" /\ stops # {}
       THEN LET k == CHOOSE i \in stops : TRUE
            IN FsmSt(st.current, st.prev, [i \in 1..k |-> <<"guard", i>>], TRUE)
       ELSE IF st.current = "None" THEN st
       ELSE LET st1 == evalTransitions(st, fTrans[st.current], guards, 1)
            IN IF st1.current # "None"
               THEN [st1 EXCEPT !.log = Append(@, <<"update", st1.current>>)]
               ELSE st1

\* update(dt)
sm_update(st, guards) ==
    IF st.current = "None" THEN st
    ELSE LET st1 == evalTransitions(st, fTrans[st.current], guards, 1)
         IN IF st1.current # "None"
            THEN [st1 EXCEPT !.log = Append(@, <<"update", st1.current>>)]
            ELSE st1

FsmIdle == [op |-> "none", start |-> "None", guards |-> <<>>, log |-> <<>>, raised |-> FALSE]

\* a machine with the states of Registered, any transition table and no
\* current state
FsmInit ==
    /\ fTrans \in [Registered -> SeqsUpTo(TargetNames, MaxTransitions)]
    /\ fCurrent = "None"
    /\ fPrev = "None"
    /\ fLast = FsmIdle

FsmDefault ==
    /\ fTrans = [n \in Registered |-> <<>>]
    /\ fCurrent = "None"
    /\ fPrev = "None"
    /\ fLast = FsmIdle

FsmFrame == UNCHANGED <<qtVars, ecsVars, schedVars, btVars, goapVars, astarVars, serviceVars>>

FsmSetState ==
    /\ \E name \in TargetNames :
          LET st == set_state(FsmSt(fCurrent, fPrev, <<>>, FALSE), name)
          IN /\ fCurrent' = st.current
             /\ fPrev' = st.prev
             /\ fLast' = [op |-> "set_state", start |-> fCurrent, guards |-> <<>>,
                          log |-> st.log, raised |-> st.raised]
    /\ UNCHANGED fTrans
    /\ FsmFrame

FsmUpdate ==
    /\ \E guards \in [1..(IF fCurrent = "None" THEN 0 ELSE Len(fTrans[fCurrent])) -> GuardResults] :
          LET st == sm_update(FsmSt(fCurrent, fPrev, <<>>, FALSE), guards)
          IN /\ fCurrent' = st.current
             /\ fPrev' = st.prev
             /\ fLast' = [op |-> "update", start |-> fCurrent, guards |-> guards,
                          log |-> st.log, raised |-> st.raised]
    /\ UNCHANGED fTrans
    /\ FsmFrame

NextFSM == FsmSetState \/ FsmUpdate

\* the update callbacks run by the last call, in order
UpdatesRun == SelectSeq(fLast.log, LAMBDA e : e[1] = "update")

\* index of the first guard of the last update call that returned true, 0 if none
FirstTrue ==
    IF \E i \in 1..Len(fLast.guards) : fLast.guards[i] = "true"
    THEN CHOOSE i \in 1..Len(fLast.guards) :
            /\ fLast.guards[i] = "true"
            /\ \A j \in 1..(i - 1) : fLast.guards[j] # "true"
    ELSE 0

\* the last call was an update in which the transition start -> to fired:
\* it is the first transition of the current state whose guard was true
Fired(to) ==
    /\ fLast.op = "update"
    /\ fLast.start # "None"
    /\ FirstTrue # 0
    /\ fTrans[fLast.start][FirstTrue] = to

\* C5: an update call in which the transition A -> B fires (B a registered
\* state) leaves B current and runs B's update callback, and no other
\* update callback, in that same call
C5_TransitionThenNewUpdate ==
    \A to \in Registered :
        Fired(to) => /\ fCurrent = to
                     /\ UpdatesRun = << <<"update", to>> >>

C5_Witness ==
    /\ Fired("B")
    /\ fLast.start = "A"
    /\ fLast.log = << <<"guard", 1>>, <<"exit", "A">>, <<"enter", "B">>, <<"update", "B">> >>

C33_FailedSetStateLeavesMachine ==
    \A name \in TargetNames \ Registered :
        LET st == set_state(FsmSt(fCurrent, fPrev, <<>>, FALSE), name)
        IN /\ st.raised
           /\ st.current = fCurrent
           /\ st.prev = fPrev
           /\ st.log = <<>>

\* C34: an update call made while the machine has a current state (a
\* set_state has succeeded before it) leaves the machine with a current state
C34_UpdateKeepsCurrent ==
    (fLast.op = "update" /\ fLast.start # "None") => fCurrent \in Registered

\* the guards evaluated by the last call, in order
GuardsEvaluated == SelectSeq(fLast.log, LAMBDA e : e[1] = "guard")

\* the exit and enter callbacks run by the last call, in order
ExitEnterRun == SelectSeq(fLast.log, LAMBDA e : e[1] \in {"exit", "enter"})

\* C17: an update call evaluates the guards of the current state in
\* registration order up to the first that returns true and no further; that
\* transition fires alone: exit of the old state, then enter of the new one
C17_FirstMatchWins ==
    (fLast.op = "update" /\ fLast.start # "None") =>
        /\ GuardsEvaluated =
              [i \in 1..(IF FirstTrue = 0 THEN Len(fLast.guards) ELSE FirstTrue) |-> <<"guard", i>>]
        /\ ExitEnterRun =
              IF FirstTrue = 0 THEN <<>>
              ELSE << <<"exit", fLast.start>>, <<"enter", fTrans[fLast.start][FirstTrue]>> >>

\* C18: a guard that raises is treated as false: update does not raise, the
\* guard registered after it is evaluated, and a call in which no guard
\* returns true leaves the current state as it was
C18_RaisingGuardIsFalse ==
    fLast.op = "update" =>
        /\ ~fLast.raised
        /\ \A i \in 1..Len(fLast.guards) :
              (fLast.guards[i] = "raise" /\ <<"guard", i>> \in Range(fLast.log) /\ i < Len(fLast.guards))
                 => <<"guard", i + 1>> \in Range(fLast.log)
        /\ FirstTrue = 0 => (fCurrent = fLast.start /\ ExitEnterRun = <<>>)

\* the first guard of A raised and the second, A -> B, fired
C18_Witness ==
    /\ fLast.op = "update" /\ fLast.start = "A"
    /\ fLast.guards = <<"raise", "true">>
    /\ fTrans["A"][2] = "B" /\ fCurrent = "B"
    /\ <<"guard", 2>> \in Range(fLast.log)

(***************************************************************************)
(* Behaviour tree (engine/behaviours/strategies/behavior_tree.py)          *)
(***************************************************************************)
MaxTicks == 3           \* update calls made on one tree

\* node constructors; a path is the sequence of child positions from the root
Sequence(children) == [type |-> "sequence", children |-> children, idx |-> 0]
Selector(children) == [type |-> "selector", children |-> children, idx |-> 0]
Inverter(child) == [type |-> "inverter", children |-> <<child>>, idx |-> 0]
Succeeder(child) == [type |-> "succeeder", children |-> <<child>>, idx |-> 0]
Condition == [type |-> "condition", children |-> <<>>, idx |-> 0]
Action == [type |-> "action", children |-> <<>>, idx |-> 0]

\* what the callback of a leaf does when it is called
ConditionResults == {"true", "false", "raise"}
\* (an action callback may also return Status.SUCCESS, Status.FAILURE, None,
\* a dict with "running" or anything else: ActionStatus maps them all)
ActionResults == {"True", "False", "Status.RUNNING", "raise"}

\* Condition.tick: an exception of the predicate is FAILURE
ConditionStatus(r) == IF r = "true" THEN "SUCCESS" ELSE "FAILURE"

\* Action.tick: the mapping of the callback's return value; an exception
\* of the callback is not caught
ActionStatus(r) ==
    CASE r = "raise" -> "raise"
      [] r = "Status.SUCCESS" -> "SUCCESS"
      [] r = "Status.FAILURE" -> "FAILURE"
      [] r = "Status.RUNNING" -> "RUNNING"
      [] r \in {"True", "None"} -> "SUCCESS"
      [] r = "False" -> "FAILURE"
      [] r = "dict_running" -> "RUNNING"
      [] OTHER -> "FAILURE"

\* the result of a tick: status ("raise" for an exception that propagates),
\* the node after the tick and the (path, status) of every node that returned
Ticked(status, node, events, path) ==
    [status |-> status, node |-> node,
     events |-> IF status = "raise" THEN events ELSE Append(events, <<path, status>>)]

RECURSIVE tick(_, _, _)
RECURSIVE sequence_tick_restart(_, _, _, _)
RECURSIVE sequence_tick(_, _, _, _)
RECURSIVE selector_tick(_, _, _, _)
RECURSIVE selector_tick_restart(_, _, _, _)

\* Sequence.tick that forgets the cursor when a child is RUNNING
sequence_tick_restart(n, path, res, events) ==
    IF n.idx >= Len(n.children) THEN Ticked("SUCCESS", [n EXCEPT !.idx = 0], events, path)
    ELSE LET r == tick(n.children[n.idx + 1], Append(path, n.idx + 1), res)
             n1 == [n EXCEPT !.children[n.idx + 1] = r.node]
             ev == events \o r.events
         IN CASE r.status = "raise" -> Ticked("raise", n1, ev, path)
              [] r.status = "RUNNING" -> Ticked("RUNNING", [n1 EXCEPT !.idx = 0], ev, path)
              [] r.status = "FAILURE" -> Ticked("FAILURE", [n1 EXCEPT !.idx = 0], ev, path)
              [] OTHER -> sequence_tick_restart([n1 EXCEPT !.idx = @ + 1], path, res, ev)

\* Sequence.tick: the while loop from the cursor on
sequence_tick(n, path, res, events) ==
    IF n.idx >= Len(n.children) THEN Ticked("SUCCESS", [n EXCEPT !.idx = 0], events, path)
    ELSE LET r == tick(n.children[n.idx + 1], Append(path, n.idx + 1), res)
             n1 == [n EXCEPT !.children[n.idx + 1] = r.node]
             ev == events \o r.events
         IN CASE r.status = "raise" -> Ticked("raise", n1, ev, path)
              [] r.status = "RUNNING" -> Ticked("RUNNING", n1, ev, path)
              [] r.status = "FAILURE" -> Ticked("FAILURE", [n1 EXCEPT !.idx = 0], ev, path)
              [] OTHER -> sequence_tick([n1 EXCEPT !.idx = @ + 1], path, res, ev)

\* Selector.tick that forgets the cursor when a child is RUNNING
selector_tick_restart(n, path, res, events) ==
    IF n.idx >= Len(n.children) THEN Ticked("FAILURE", [n EXCEPT !.idx = 0], events, path)
    ELSE LET r == tick(n.children[n.idx + 1], Append(path, n.idx + 1), res)
             n1 == [n EXCEPT !.children[n.idx + 1] = r.node]
             ev == events \o r.events
         IN CASE r.status = "raise" -> Ticked("raise", n1, ev, path)
              [] r.status = "RUNNING" -> Ticked("RUNNING", [n1 EXCEPT !.idx = 0], ev, path)
              [] r.status = "SUCCESS" -> Ticked("SUCCESS", [n1 EXCEPT !.idx = 0], ev, path)
              [] OTHER -> selector_tick_restart([n1 EXCEPT !.idx = @ + 1], path, res, ev)

\* Selector.tick: the while loop from the cursor on
selector_tick(n, path, res, events) ==
    IF n.idx >= Len(n.children) THEN Ticked("FAILURE", [n EXCEPT !.idx = 0], events, path)
    ELSE LET r == tick(n.children[n.idx + 1], Append(path, n.idx + 1), res)
             n1 == [n EXCEPT !.children[n.idx + 1] = r.node]
             ev == events \o r.events
         IN CASE r.status = "raise" -> Ticked("raise", n1, ev, path)
              [] r.status = "RUNNING" -> Ticked("RUNNING", n1, ev, path)
              [] r.status = "SUCCESS" -> Ticked("SUCCESS", [n1 EXCEPT !.idx = 0], ev, path)
              [] OTHER -> selector_tick([n1 EXCEPT !.idx = @ + 1], path, res, ev)

\* Node.tick by node type; res gives the callback result of the leaf at each path
tick(n, path, res) ==
    CASE n.type = "sequence" -> sequence_tick(n, path, res, <<>>)
      [] n.type = "selector" -> selector_tick(n, path, res, <<>>)
      [] n.type = "inverter" ->
            LET r == tick(n.children[1], Append(path, 1), res)
            IN Ticked(CASE r.status = "SUCCESS" -> "FAILURE"
                        [] r.status = "FAILURE" -> "SUCCESS"
                        [] OTHER -> r.status,
                      [n EXCEPT !.children[1] = r.node], r.events, path)
      [] n.type = "succeeder" ->
            LET r == tick(n.children[1], Append(path, 1), res)
            IN Ticked(IF r.status = "raise" THEN "raise" ELSE "SUCCESS",
                      [n EXCEPT !.children[1] = r.node], r.events, path)
      [] n.type = "condition" -> Ticked(ConditionStatus(res[path]), n, <<>>, path)
      [] OTHER -> Ticked(ActionStatus(res[path]), n, <<>>, path)

\* the paths of the nodes of a tree whose type is one of types
RECURSIVE PathsOf(_, _, _)
PathsOf(n, path, types) ==
    (IF n.type \in types THEN {path} ELSE {})
    \cup UNION {PathsOf(n.children[i], Append(path, i), types) : i \in 1..Len(n.children)}

ConditionPaths(n) == PathsOf(n, <<>>, {"condition"})
LeafPaths(n) == PathsOf(n, <<>>, {"condition", "action"})
SequencePaths(n) == PathsOf(n, <<>>, {"sequence"})

\* the trees under analysis
Trees == { Sequence(<<Action, Action, Action>>),
           Selector(<<Action, Action, Action>>),
           Sequence(<<Condition, Selector(<<Action, Action>>), Action>>),
           Selector(<<Sequence(<<Condition, Action>>), Inverter(Action)>>),
           Sequence(<<Succeeder(Action), Sequence(<<Action, Action>>)>>),
           Succeeder(Sequence(<<Action, Action>>)) }

BtInit ==
    /\ btRoot \in Trees
    /\ btHist = <<>>

BtDefault ==
    /\ btRoot = Sequence(<<>>)
    /\ btHist = <<>>

BtFrame == UNCHANGED <<qtVars, ecsVars, schedVars, fsmVars, goapVars, astarVars, serviceVars>>

\* BehaviourTree.update(dt, agent, blackboard)
BtUpdate ==
    /\ Len(btHist) < MaxTicks
    /\ \E res \in [LeafPaths(btRoot) -> ActionResults \cup ConditionResults] :
          /\ \A p \in LeafPaths(btRoot) :
                 IF p \in ConditionPaths(btRoot) THEN res[p] \in ConditionResults
                                                ELSE res[p] \in ActionResults
          /\ LET r == tick(btRoot, <<>>, res)
             IN /\ btRoot' = r.node
                /\ btHist' = Append(btHist, [status |-> r.status, events |-> r.events])
    /\ BtFrame

NextBT == BtUpdate

\* the status the node at path p returned in tick t, "none" if it was not
\* ticked or did not return
StatusAt(t, p) ==
    LET ev == btHist[t].events
    IN IF \E i \in 1..Len(ev) : ev[i][1] = p
       THEN ev[CHOOSE i \in 1..Len(ev) : ev[i][1] = p][2]
       ELSE "none"

IsPrefix(p, q) == Len(p) <= Len(q) /\ SubSeq(q, 1, Len(p)) = p

\* the node at path p or a node below it returned in tick t
Entered(t, p) == \E i \in 1..Len(btHist[t].events) : IsPrefix(p, btHist[t].events[i][1])

\* number of ticks of the history in which the node at path p returned
TickCount(p) == Cardinality({t \in 1..Len(btHist) : StatusAt(t, p) # "none"})

\* C4: when child k of a Sequence returns RUNNING the Sequence returns
\* RUNNING, and the next tick of the Sequence starts at child k without
\* ticking the children before k; for a Sequence of 3 actions whose 2nd
\* returns RUNNING, RUNNING, SUCCESS the three ticks yield RUNNING, RUNNING,
\* the 3rd action is ticked in the 3rd tick and the 1st is ticked once
C4_General ==
    \A p \in SequencePaths(btRoot), t \in 1..Len(btHist), k \in 1..3 :
        StatusAt(t, Append(p, k)) = "RUNNING" =>
            /\ StatusAt(t, p) = "RUNNING"
            /\ \A u \in (t + 1)..Len(btHist) :
                  (Entered(u, p) /\ \A v \in (t + 1)..(u - 1) : ~Entered(v, p)) =>
                      /\ Entered(u, Append(p, k))
                      /\ \A j \in 1..(k - 1) : ~Entered(u, Append(p, j))

C4_Scenario ==
    /\ Len(btHist) = 3
    /\ btRoot.type = "sequence" /\ Len(btRoot.children) = 3
    /\ \A i \in 1..3 : btRoot.children[i].type = "action"
    /\ StatusAt(1, <<2>>) = "RUNNING"
    /\ StatusAt(2, <<2>>) = "RUNNING"
    /\ StatusAt(3, <<2>>) = "SUCCESS"

C4_SequenceResumes ==
    /\ C4_General
    /\ C4_Scenario =>
          /\ btHist[1].status = "RUNNING"
          /\ btHist[2].status = "RUNNING"
          /\ StatusAt(3, <<3>>) # "none" \/ btHist[3].status = "raise"
          /\ TickCount(<<1>>) = 1

C4_Witness == C4_Scenario /\ StatusAt(3, <<3>>) = "SUCCESS"

\* C19: no tick propagates an error raised by a leaf: the leaf returns
\* FAILURE and update returns a status
C19_LeafErrorsBecomeFailure ==
    \A t \in 1..Len(btHist) : btHist[t].status # "raise"

\* the node at path p of the tree n
RECURSIVE NodeAt(_, _)
NodeAt(n, p) == IF p = <<>> THEN n ELSE NodeAt(n.children[Head(p)], Tail(p))

CompositePaths(n) == PathsOf(n, <<>>, {"sequence", "selector"})

\* the status the node at path p returned the last time it returned
LastReturn(p) ==
    LET ts == {t \in 1..Len(btHist) : StatusAt(t, p) # "none"}
    IN IF ts = {} THEN "none"
       ELSE StatusAt(CHOOSE t \in ts : \A u \in ts : u <= t, p)

\* C20: the cursor of a Sequence or Selector is 0 unless the last result of
\* the node was RUNNING (so it is 0 after SUCCESS and after FAILURE), and it
\* indexes an existing child
C20_CursorZeroUnlessRunning ==
    \A p \in CompositePaths(btRoot) :
        LET n == NodeAt(btRoot, p)
        IN /\ n.idx # 0 => LastReturn(p) = "RUNNING"
           /\ n.idx = 0 \/ n.idx < Len(n.children)

\* C35: whenever the root's tick has returned SUCCESS or FAILURE, the
\* cursor of every Sequence and Selector of the tree is 0
C35_CursorsZeroWhenRootCompletes ==
    (btHist # <<>> /\ btHist[Len(btHist)].status \in {"SUCCESS", "FAILURE"})
        => \A p \in CompositePaths(btRoot) : NodeAt(btRoot, p).idx = 0

SelectorPaths(n) == PathsOf(n, <<>>, {"selector"})

\* the position in the events of tick t at which the node at path p returned
\* (0 if it did not return)
ReturnedAt(t, p) ==
    LET ev == btHist[t].events
    IN IF \E i \in 1..Len(ev) : ev[i][1] = p
       THEN CHOOSE i \in 1..Len(ev) : ev[i][1] = p
       ELSE 0

\* the last tick of the history, for the Selector at path p whose cursor
\* was c when the tick began: if the Selector returned, the children it
\* ticked are c+1, c+2, ... in this order up to the child k that decided;
\* SUCCESS means child k returned SUCCESS, the children before it FAILURE and
\* the cursor is 0; RUNNING means child k returned RUNNING, the children
\* before it FAILURE and the cursor stays on k; FAILURE means every child
\* from c+1 on returned FAILURE
SelectorTickedFrom(p, c) ==
    LET t == Len(btHist)
        n == Len(NodeAt(btRoot, p).children)
        ret == StatusAt(t, p)
        st(k) == StatusAt(t, Append(p, k))
        Upto(k, last) ==
            /\ st(k) = last
            /\ \A j \in (c + 1)..(k - 1) : st(j) = "FAILURE"
            /\ \A j \in (c + 1)..(k - 1) :
                   ReturnedAt(t, Append(p, j)) < ReturnedAt(t, Append(p, j + 1))
            /\ \A j \in (k + 1)..n : ~Entered(t, Append(p, j))
    IN ret # "none" =>
          /\ \A j \in 1..c : ~Entered(t, Append(p, j))
          /\ ret = "SUCCESS" =>
                /\ \E k \in (c + 1)..n : Upto(k, "SUCCESS")
                /\ NodeAt(btRoot, p).idx = 0
          /\ ret = "RUNNING" =>
                \E k \in (c + 1)..n : Upto(k, "RUNNING") /\ NodeAt(btRoot, p).idx = k - 1
          /\ ret = "FAILURE" =>
                /\ \A j \in (c + 1)..n : st(j) = "FAILURE"
                /\ \A j \in (c + 1)..(n - 1) :
                       ReturnedAt(t, Append(p, j)) < ReturnedAt(t, Append(p, j + 1))
                /\ NodeAt(btRoot, p).idx = 0

C21_SelectorStep ==
    btHist' # btHist =>
        \A p \in SelectorPaths(btRoot) :
            \E c \in 0..Len(NodeAt(btRoot, p).children) :
                c = NodeAt(btRoot, p).idx /\ SelectorTickedFrom(p, c)'

\* C21: a Selector ticks its children in order from its cursor; it returns
\* SUCCESS at the first child that returns SUCCESS without ticking a later
\* child, RUNNING (cursor kept on that child) at the first child that
\* returns RUNNING, and FAILURE only after every child from the cursor on
\* returned FAILURE
C21_SelectorShortCircuits == [][C21_SelectorStep]_vars

\* a Selector of three actions: FAILURE, RUNNING in the first tick; the
\* second tick resumes at the second action, which fails, and the third
\* action succeeds
C21_Witness ==
    /\ Len(btHist) = 2
    /\ btRoot.type = "selector" /\ Len(btRoot.children) = 3
    /\ StatusAt(1, <<1>>) = "FAILURE" /\ StatusAt(1, <<2>>) = "RUNNING"
    /\ btHist[1].status = "RUNNING"
    /\ StatusAt(2, <<1>>) = "none" /\ StatusAt(2, <<2>>) = "FAILURE"
    /\ StatusAt(2, <<3>>) = "SUCCESS"
    /\ btHist[2].status = "SUCCESS" /\ btRoot.idx = 0

(***************************************************************************)
(* heapq, as used by GoapPlanner.plan and GridAStar.find_path              *)
(***************************************************************************)
\* item < item of the heap entries.  A GOAP entry is the tuple (f, g, state,
\* path): tuples compare at their first unequal position, and neither two
\* dicts nor two GoapAction objects support "<", which raises TypeError.
\* A grid entry is a _Node, ordered by f alone.
PathsDiffer(p, q) ==
    \E i \in 1..(IF Len(p) < Len(q) THEN Len(p) ELSE Len(q)) : p[i] # q[i]

\* a cost a + b*sqrt(2) is the pair <<a, b>>; c < d by exact arithmetic
CostLess(c, d) ==
    LET p == c[1] - d[1]
        q == d[2] - c[2]
    IN CASE p < 0 /\ q >= 0 -> TRUE
         [] p >= 0 /\ q <= 0 -> FALSE
         [] p >= 0 /\ q > 0 -> p * p < 2 * q * q
         [] OTHER -> p * p > 2 * q * q

CostAdd(c, d) == <<c[1] + d[1], c[2] + d[2]>>

ItemLess(a, b) ==
    IF a.kind = "node"
    THEN IF CostLess(a.f, b.f) THEN "lt" ELSE "ge"
    ELSE CASE a.f # b.f -> IF a.f < b.f THEN "lt" ELSE "ge"
           [] a.g # b.g -> IF a.g < b.g THEN "lt" ELSE "ge"
           [] a.state # b.state -> "err"
           [] PathsDiffer(a.path, b.path) -> "err"
           [] OTHER -> IF Len(a.path) < Len(b.path) THEN "lt" ELSE "ge"

\* positions are 0-based as in heapq; heap[pos + 1] is the item at pos
RECURSIVE _siftdown(_, _, _, _)
_siftdown(heap, startpos, pos, newitem) ==
    IF pos > startpos
    THEN LET parentpos == (pos - 1) \div 2
             parent == heap[parentpos + 1]
             c == ItemLess(newitem, parent)
         IN CASE c = "err" -> [heap |-> heap, err |-> TRUE]
              [] c = "lt" -> _siftdown([heap EXCEPT ![pos + 1] = parent], startpos, parentpos, newitem)
              [] OTHER -> [heap |-> [heap EXCEPT ![pos + 1] = newitem], err |-> FALSE]
    ELSE [heap |-> [heap EXCEPT ![pos + 1] = newitem], err |-> FALSE]

RECURSIVE _siftup(_, _, _, _)
_siftup(heap, startpos, pos, newitem) ==
    LET endpos == Len(heap)
        childpos == 2 * pos + 1
        rightpos == childpos + 1
    IN IF childpos < endpos
       THEN LET c == IF rightpos < endpos
                     THEN ItemLess(heap[childpos + 1], heap[rightpos + 1])
                     ELSE "lt"
                cp == IF c = "lt" THEN childpos ELSE rightpos
            IN IF c = "err" THEN [heap |-> heap, err |-> TRUE]
               ELSE _siftup([heap EXCEPT ![pos + 1] = heap[cp + 1]], startpos, cp, newitem)
       ELSE _siftdown(heap, startpos, pos, newitem)

heappush(heap, item) == _siftdown(Append(heap, item), 0, Len(heap), item)

\* heappop returns [item, heap, err]
heappop(heap) ==
    LET lastelt == heap[Len(heap)]
        rest == SubSeq(heap, 1, Len(heap) - 1)
    IN IF rest = <<>>
       THEN [item |-> lastelt, heap |-> <<>>, err |-> FALSE]
       ELSE LET r == _siftup([rest EXCEPT ![1] = lastelt], 0, 0, lastelt)
            IN [item |-> rest[1], heap |-> r.heap, err |-> r.err]

(***************************************************************************)
(* GOAP planner (engine/behaviours/strategies/goap.py)                     *)
(***************************************************************************)
MaxGoapCalls == 5       \* GoapPlanner calls made on one planner

NoneVal == -1           \* what dict.get returns for a missing key

Get(d, k) == IF k \in DOMAIN d THEN d[k] ELSE NoneVal

GoapAction(name, pre, eff, cost, perform) ==
    [name |-> name, preconditions |-> pre, effects |-> eff, cost |-> cost, perform |-> perform]

\* is_applicable that ignores the preconditions
is_applicable_always(a, state) == TRUE

is_applicable(a, state) == \A k \in DOMAIN a.preconditions : Get(state, k) = a.preconditions[k]

apply(a, state) ==
    [k \in DOMAIN state \cup DOMAIN a.effects |->
        IF k \in DOMAIN a.effects THEN a.effects[k] ELSE state[k]]

\* tuple(sorted(state.items())): the key/value pairs in a canonical order
_state_to_key(state) == {<<k, state[k]>> : k \in DOMAIN state}

_heuristic(state, goal) == Cardinality({k \in DOMAIN goal : Get(state, k) # goal[k]})

HeapEntry(f, g, state, path) == [kind |-> "goap", f |-> f, g |-> g, state |-> state, path |-> path]

\* the expansion loop "for action in self.actions", from action i on;
\* returns [heap, err]
RECURSIVE expand(_, _, _, _, _)
expand(open, actions, i, goal, e) ==
    IF i > Len(actions) THEN [heap |-> open, err |-> FALSE]
    ELSE IF is_applicable(actions[i], e.state)
         THEN LET new_state == apply(actions[i], e.state)
                  new_g == e.g + actions[i].cost
                  r == heappush(open, HeapEntry(new_g + _heuristic(new_state, goal), new_g,
                                                new_state, Append(e.path, actions[i])))
              IN IF r.err THEN r ELSE expand(r.heap, actions, i + 1, goal, e)
         ELSE expand(open, actions, i + 1, goal, e)

\* an iteration that does not test closed before it expands the popped state
planStep_reexpand(open, closed, actions, goal) ==
    LET p == heappop(open)
        e == p.item
        key == _state_to_key(e.state)
        Out(kind, heap, cl, path, added) ==
            [kind |-> kind, heap |-> heap, closed |-> cl, path |-> path, added |-> added]
    IN IF p.err THEN Out("raise", p.heap, closed, <<>>, <<>>)
       ELSE IF _heuristic(e.state, goal) = 0
            THEN Out("plan", p.heap, closed \cup {key}, e.path, <<key>>)
       ELSE LET x == expand(p.heap, actions, 1, goal, e)
            IN IF x.err THEN Out("raise", x.heap, closed \cup {key}, <<>>, <<key>>)
               ELSE Out("continue", x.heap, closed \cup {key}, <<>>, <<key>>)

\* one iteration of the while loop of plan on a non-empty heap: the pop, the
\* closed test, the goal test and the expansion; returns [kind, heap, closed,
\* path, added] with kind continue / plan / raise; added holds the state key
\* that the iteration added to closed
planStep(open, closed, actions, goal) ==
    LET p == heappop(open)
        e == p.item
        key == _state_to_key(e.state)
        Out(kind, heap, cl, path, added) ==
            [kind |-> kind, heap |-> heap, closed |-> cl, path |-> path, added |-> added]
    IN IF p.err THEN Out("raise", p.heap, closed, <<>>, <<>>)
       ELSE IF key \in closed THEN Out("continue", p.heap, closed, <<>>, <<>>)
       ELSE IF _heuristic(e.state, goal) = 0
            THEN Out("plan", p.heap, closed \cup {key}, e.path, <<key>>)
       ELSE LET x == expand(p.heap, actions, 1, goal, e)
            IN IF x.err THEN Out("raise", x.heap, closed \cup {key}, <<>>, <<key>>)
               ELSE Out("continue", x.heap, closed \cup {key}, <<>>, <<key>>)

\* the while loop of plan; returns [kind, path] with kind plan / none / raise
RECURSIVE planLoop(_, _, _, _)
planLoop(open, closed, actions, goal) ==
    IF open = <<>> THEN [kind |-> "none", path |-> <<>>]
    ELSE LET r == planStep(open, closed, actions, goal)
         IN IF r.kind = "continue" THEN planLoop(r.heap, r.closed, actions, goal)
            ELSE [kind |-> r.kind, path |-> r.path]

plan(actions, goal, initial) ==
    planLoop(heappush(<<>>, HeapEntry(_heuristic(initial, goal), 0, initial, <<>>)).heap,
             {}, actions, goal)

current_plan_actions == [i \in 1..Len(gPlan) |-> gPlan[i].name]

\* the planners under analysis: action lists over the keys "s" and "t"
Chain(perform) ==
    << GoapAction("a1", [s |-> 0], [s |-> 1], 1, perform),
       GoapAction("a2", [s |-> 1], [s |-> 2], 1, perform),
       GoapAction("a3", [s |-> 2], [s |-> 3], 1, perform) >>

ActionLists ==
    { Chain(FALSE), Chain(TRUE),
      << GoapAction("a1", [s |-> 0], [s |-> 1], 1, TRUE),
         GoapAction("b", [s |-> 0], [t |-> 1], 1, TRUE) >>,
      << GoapAction("a1", [s |-> 0], [s |-> 1], 2, FALSE),
         GoapAction("a2", [s |-> 1], [s |-> 0, t |-> 1], 1, TRUE) >> }

Goals == { [s |-> 3], [s |-> 1], [t |-> 1], [s |-> 1, t |-> 1] }

GoapIdle == [op |-> "none", ret |-> FALSE, executed |-> "", result |-> "", calls |-> 0]

GoapInit ==
    /\ gActions \in ActionLists
    /\ gBB = [s |-> 0]
    /\ gPlan = <<>>
    /\ gIndex = 0
    /\ gLast = GoapIdle

GoapDefault ==
    /\ gActions = <<>>
    /\ gBB = [s |-> 0]
    /\ gPlan = <<>>
    /\ gIndex = 0
    /\ gLast = GoapIdle

GoapFrame == UNCHANGED <<qtVars, ecsVars, schedVars, fsmVars, btVars, astarVars, serviceVars>>

\* start_plan(goal): plans from the global scope of the blackboard
start_plan(goal) ==
    LET r == plan(gActions, goal, gBB)
    IN CASE r.kind = "raise" ->
              /\ gLast' = [GoapIdle EXCEPT !.op = "start_plan", !.result = "raise",
                                           !.calls = gLast.calls + 1]
              /\ UNCHANGED <<gPlan, gIndex>>
         [] r.kind = "none" \/ r.path = <<>> ->
              /\ gPlan' = <<>>
              /\ gIndex' = 0
              /\ gLast' = [GoapIdle EXCEPT !.op = "start_plan", !.ret = FALSE,
                                           !.calls = gLast.calls + 1]
         [] OTHER ->
              /\ gPlan' = r.path
              /\ gIndex' = 0
              /\ gLast' = [GoapIdle EXCEPT !.op = "start_plan", !.ret = TRUE,
                                           !.calls = gLast.calls + 1]

GoapStartPlan ==
    /\ gLast.calls < MaxGoapCalls
    /\ \E goal \in Goals : start_plan(goal)
    /\ UNCHANGED <<gActions, gBB>>
    /\ GoapFrame

\* GoapAction.execute: what the call does; "effects" writes the effects of an
\* action without perform callback into the blackboard and succeeds
ExecuteResults(a) == IF a.perform THEN {"true", "false", "raise"} ELSE {"effects"}

\* update(dt) that keeps the plan when the action fails
goap_update_keep(res) ==
    IF gPlan = <<>> \/ gIndex >= Len(gPlan)
    THEN /\ gLast' = [GoapIdle EXCEPT !.op = "update", !.ret = FALSE, !.calls = gLast.calls + 1]
         /\ UNCHANGED <<gPlan, gIndex, gBB>>
    ELSE LET action == gPlan[gIndex + 1]
         IN /\ res \in ExecuteResults(action)
            /\ gBB' = IF res = "effects" THEN apply(action, gBB) ELSE gBB
            /\ gIndex' = IF res \in {"effects", "true"} THEN gIndex + 1 ELSE gIndex
            /\ gPlan' = gPlan
            /\ gLast' = [op |-> "update",
                         ret |-> (res \in {"effects", "true"} /\ gIndex + 1 < Len(gPlan)),
                         executed |-> action.name, result |-> res, calls |-> gLast.calls + 1]

\* update(dt) that leaves the index where it was when the action succeeds
goap_update_stay(res) ==
    IF gPlan = <<>> \/ gIndex >= Len(gPlan)
    THEN /\ gLast' = [GoapIdle EXCEPT !.op = "update", !.ret = FALSE, !.calls = gLast.calls + 1]
         /\ UNCHANGED <<gPlan, gIndex, gBB>>
    ELSE LET action == gPlan[gIndex + 1]
         IN /\ res \in ExecuteResults(action)
            /\ gBB' = IF res = "effects" THEN apply(action, gBB) ELSE gBB
            /\ gIndex' = IF res = "false" THEN 0 ELSE gIndex
            /\ gPlan' = IF res = "false" THEN <<>> ELSE gPlan
            /\ gLast' = [op |-> "update",
                         ret |-> (res \in {"effects", "true"} /\ gIndex + 1 < Len(gPlan)),
                         executed |-> action.name, result |-> res, calls |-> gLast.calls + 1]

\* update(dt)
goap_update(res) ==
    IF gPlan = <<>> \/ gIndex >= Len(gPlan)
    THEN /\ gLast' = [GoapIdle EXCEPT !.op = "update", !.ret = FALSE, !.calls = gLast.calls + 1]
         /\ UNCHANGED <<gPlan, gIndex, gBB>>
    ELSE LET action == gPlan[gIndex + 1]
         IN /\ res \in ExecuteResults(action)
            /\ gBB' = IF res = "effects" THEN apply(action, gBB) ELSE gBB
            /\ gIndex' = CASE res \in {"effects", "true"} -> gIndex + 1
                            [] res = "false" -> 0
                            [] OTHER -> gIndex
            /\ gPlan' = IF res = "false" THEN <<>> ELSE gPlan
            /\ gLast' = [op |-> "update",
                         ret |-> (res \in {"effects", "true"} /\ gIndex + 1 < Len(gPlan)),
                         executed |-> action.name, result |-> res, calls |-> gLast.calls + 1]

GoapUpdate ==
    /\ gLast.calls < MaxGoapCalls
    /\ \E res \in {"effects", "true", "false", "raise"} : goap_update(res)
    /\ UNCHANGED gActions
    /\ GoapFrame

NextGOAP == GoapStartPlan \/ GoapUpdate

\* C7: when the action executed by update fails, update returns false and
\* the whole plan is discarded (current_plan_actions() is empty); while no
\* plan is stored, update executes no action
C7_AbortState ==
    (gLast.op = "update" /\ gLast.result = "false") =>
        /\ gLast.ret = FALSE
        /\ current_plan_actions = <<>>

C7_NoActionWithoutPlan ==
    (gPlan = <<>> /\ gLast'.op = "update" /\ gLast' # gLast) =>
        (gLast'.executed = "" /\ gLast'.ret = FALSE)

C7_FailureDiscardsPlan == [](C7_AbortState) /\ [][C7_NoActionWithoutPlan]_vars

\* the 2nd action of a 3-action plan has just failed
C7_Witness ==
    /\ gLast.op = "update" /\ gLast.result = "false" /\ gLast.executed = "a2"
    /\ Len(gActions) = 3
    /\ gPlan = <<>>

\* the world states a caller may pass as initial: dicts over the keys "s", "t"
GoapStates == UNION {[D -> 0..3] : D \in SUBSET {"s", "t"}}

\* every key of the dict want has the same value in state
Matches(want, state) == \A k \in DOMAIN want : Get(state, k) = want[k]

\* the state after the first n actions of path, each overwriting with its effects
RECURSIVE StateAfter(_, _, _)
StateAfter(path, n, state) ==
    IF n = 0 THEN state
    ELSE LET before == StateAfter(path, n - 1, state)
             eff == path[n].effects
         IN [k \in DOMAIN before \cup DOMAIN eff |->
                IF k \in DOMAIN eff THEN eff[k] ELSE before[k]]

Executable(path, goal, initial) ==
    /\ \A n \in 1..Len(path) :
           Matches(path[n].preconditions, StateAfter(path, n - 1, initial))
    /\ Matches(goal, StateAfter(path, Len(path), initial))

\* C22: a plan returned by plan(goal, initial) is executable from initial
\* (the preconditions of each action hold, by equality per key, in the state
\* its predecessors produced) and its final state matches goal on every
\* goal key
C22_PlanExecutable ==
    \A goal \in Goals, initial \in GoapStates \cup {gBB} :
        LET r == plan(gActions, goal, initial)
        IN r.kind = "plan" =>
              /\ Range(r.path) \subseteq Range(gActions)
              /\ Executable(r.path, goal, initial)

\* start_plan has just stored the plan a1, a2, a3 found from the blackboard
C22_Witness ==
    /\ gLast.op = "start_plan" /\ gLast.ret
    /\ current_plan_actions = <<"a1", "a2", "a3">>
    /\ gIndex = 0
    /\ \E goal \in Goals : plan(gActions, goal, gBB).path = gPlan

C23_StartPlanStep ==
    \A goal \in Goals :
        (plan(gActions, goal, gBB).kind = "plan" /\ start_plan(goal)) =>
            /\ gLast'.ret
            /\ gPlan' = plan(gActions, goal, gBB).path
            /\ gIndex' = 0

\* C23: whenever plan(goal) finds a plan, start_plan(goal) stores it, sets
\* the index to 0 and returns true
C23_StartPlanTrueWhenPlanFound == [][C23_StartPlanStep]_vars

C24_UpdateStep ==
    gLast'.op = "update" =>
        IF gPlan # <<>> /\ gIndex < Len(gPlan)
        THEN /\ gLast'.executed = gPlan[gIndex + 1].name
             /\ gBB' = IF gLast'.result = "effects"
                       THEN StateAfter(<<gPlan[gIndex + 1]>>, 1, gBB) ELSE gBB
             /\ gLast'.result \in {"effects", "true"} =>
                    gIndex' = gIndex + 1 /\ gPlan' = gPlan
             /\ gLast'.result # "raise" =>
                    (gLast'.ret <=> (gPlan' # <<>> /\ gIndex' < Len(gPlan')))
        ELSE /\ gLast'.executed = "" /\ ~gLast'.ret
             /\ UNCHANGED <<gPlan, gIndex, gBB>>

\* C24: an update call executes the action at the plan index and no other;
\* when it succeeds the index advances by one; the call returns true when
\* the stored plan is still in progress afterwards, and it returns false
\* without executing anything when there is no plan or the plan is exhausted
C24_OneActionPerUpdate == [][C24_UpdateStep]_vars

\* the second action of a three-action plan has just succeeded
C24_Witness ==
    /\ gLast.op = "update" /\ gLast.executed = "a2" /\ gLast.result \in {"effects", "true"}
    /\ Len(gPlan) = 3 /\ gIndex = 2
    /\ gLast.ret

\* C25: plan never raises; start_plan, which calls it, gets a list or none
C25_PlanNeverRaises == ~(gLast.op = "start_plan" /\ gLast.result = "raise")

(***************************************************************************)
(* GoapPlanner.plan, one iteration of its while loop at a time             *)
(***************************************************************************)
\* the action lists of the plan calls: those of ActionLists and two actions
\* that undo each other
PlanActionLists ==
    ActionLists \cup
    { << GoapAction("on", [s |-> 0], [s |-> 1], 1, TRUE),
         GoapAction("off", [s |-> 1], [s |-> 0], 1, TRUE) >> }

PlanPending == [kind |-> "pending", path |-> <<>>]

PlanIdle ==
    /\ plPc = "idle"
    /\ plGoal = EmptyDict
    /\ plOpen = <<>>
    /\ plClosed = {}
    /\ plExpanded = <<>>
    /\ plRet = PlanPending

PlanInit ==
    /\ gActions \in PlanActionLists
    /\ gBB = [s |-> 0]
    /\ gPlan = <<>>
    /\ gIndex = 0
    /\ gLast = GoapIdle
    /\ PlanIdle

PlanFrame == UNCHANGED <<qtVars, ecsVars, schedVars, fsmVars, btVars, goapVars, astarVars,
                         brainVars, bbVars, acVars>>

\* plan(goal, initial) up to the while loop: the start entry is pushed
PlanCall ==
    /\ plPc \in {"idle", "done"}
    /\ \E goal \in Goals, initial \in GoapStates :
          /\ plGoal' = goal
          /\ plOpen' = heappush(<<>>, HeapEntry(_heuristic(initial, goal), 0, initial, <<>>)).heap
    /\ plClosed' = {}
    /\ plExpanded' = <<>>
    /\ plRet' = PlanPending
    /\ plPc' = "loop"
    /\ PlanFrame

\* one iteration of "while open_heap"
PlanIterate ==
    /\ plPc = "loop"
    /\ plOpen # <<>>
    /\ LET r == planStep(plOpen, plClosed, gActions, plGoal)
       IN /\ plOpen' = r.heap
          /\ plClosed' = r.closed
          /\ plExpanded' = plExpanded \o r.added
          /\ plPc' = IF r.kind = "continue" THEN "loop" ELSE "done"
          /\ plRet' = IF r.kind = "continue" THEN plRet ELSE [kind |-> r.kind, path |-> r.path]
    /\ UNCHANGED plGoal
    /\ PlanFrame

\* the while condition fails: return None
PlanExhausted ==
    /\ plPc = "loop"
    /\ plOpen = <<>>
    /\ plPc' = "done"
    /\ plRet' = [kind |-> "none", path |-> <<>>]
    /\ UNCHANGED <<plGoal, plOpen, plClosed, plExpanded>>
    /\ PlanFrame

NextPlan == PlanCall \/ PlanIterate \/ PlanExhausted

\* no state key was added to closed twice in the call
ExpandedOnce ==
    \A i, j \in 1..Len(plExpanded) : plExpanded[i] = plExpanded[j] => i = j

\* None is returned only with an empty frontier
NoneWhenExhausted == plRet.kind = "none" => plOpen = <<>>

\* C36: every plan call ends (the loop is left), whatever the actions, the
\* goal and the initial state; no world state is expanded twice in a call,
\* and None is returned exactly when the frontier is exhausted
C36_PlanTerminates ==
    /\ [](ExpandedOnce /\ NoneWhenExhausted)
    /\ [][(plPc = "loop" /\ plOpen = <<>>) => plRet'.kind = "none"]_vars
    /\ (plPc = "loop") ~> (plPc = "done")

\* a call on the two actions that undo each other ended with None after
\* both world states were expanded and an entry of a closed state was popped
C36_Witness ==
    /\ plPc = "done"
    /\ plRet.kind = "none"
    /\ Len(gActions) = 2 /\ gActions[1].name = "on"
    /\ Len(plExpanded) = 2

(***************************************************************************)
(* Grid A* (engine/world/navigation.py)                                    *)
(***************************************************************************)
MaxWalls == 1           \* tiles that carry the "wall" tag

GridSizes == {<<3, 4>>, <<2, 2>>, <<3, 1>>}     \* width and height of the grids
TagSets == {{}, {"ghost"}}              \* agent tag sets

TilesOf(w, h) == {<<x, y>> : x \in 0..(w - 1), y \in 0..(h - 1)}

Abs(n) == IF n < 0 THEN -n ELSE n

manhattan(x1, y1, x2, y2) == Abs(x1 - x2) + Abs(y1 - y2)

in_bounds(grid, x, y) == 0 <= x /\ x < grid.w /\ 0 <= y /\ y < grid.h

\* the passability predicate of the grid: a wall tile stops every agent but
\* a ghost
is_passable(grid, x, y, tags) == <<x, y>> \notin grid.walls \/ "ghost" \in tags

Dirs(grid) ==
    << <<1, 0>>, <<-1, 0>>, <<0, 1>>, <<0, -1>> >>
    \o (IF grid.diagonal THEN << <<1, 1>>, <<1, -1>>, <<-1, 1>>, <<-1, -1>> >> ELSE <<>>)

\* math.hypot(dx, dy) of a step, 1.0 without diagonal movement
StepCost(grid, d) == IF grid.diagonal /\ d[1] # 0 /\ d[2] # 0 THEN <<0, 1>> ELSE <<1, 0>>

\* neighbors that keeps the tiles outside the grid
neighbors_unbounded(grid, x, y) ==
    [i \in 1..Len(Dirs(grid)) |->
        <<x + Dirs(grid)[i][1], y + Dirs(grid)[i][2], StepCost(grid, Dirs(grid)[i])>>]

\* neighbors(x, y): the list of (nx, ny, move_cost)
neighbors(grid, x, y) ==
    LET all == [i \in 1..Len(Dirs(grid)) |->
                   <<x + Dirs(grid)[i][1], y + Dirs(grid)[i][2], StepCost(grid, Dirs(grid)[i])>>]
    IN SelectSeq(all, LAMBDA n : in_bounds(grid, n[1], n[2]))

_Node(f, g, x, y, parent) == [kind |-> "node", f |-> f, g |-> g, x |-> x, y |-> y, parent |-> parent]

NoParent == [kind |-> "None"]

\* the reconstruction loop followed by path.reverse()
RECURSIVE reconstruct(_)
reconstruct(node) ==
    IF node.kind = "None" THEN <<>> ELSE Append(reconstruct(node.parent), <<node.x, node.y>>)

\* the loop over the neighbours of the popped node, from neighbour i on;
\* returns [heap, came]
RECURSIVE relaxNeighbors(_, _, _, _, _, _, _)
relaxNeighbors(grid, q, node, nbs, i, open, came) ==
    IF i > Len(nbs) THEN [heap |-> open, came |-> came]
    ELSE LET key == <<nbs[i][1], nbs[i][2]>>
             ng == CostAdd(node.g, nbs[i][3])
         IN IF is_passable(grid, key[1], key[2], q.tags)
               /\ (key \notin DOMAIN came \/ CostLess(ng, came[key]))
            THEN relaxNeighbors(grid, q, node, nbs, i + 1,
                     heappush(open, _Node(CostAdd(ng, <<manhattan(key[1], key[2], q.goal[1], q.goal[2]), 0>>),
                                          ng, key[1], key[2], node)).heap,
                     [t \in DOMAIN came \cup {key} |-> IF t = key THEN ng ELSE came[t]])
            ELSE relaxNeighbors(grid, q, node, nbs, i + 1, open, came)

\* the while loop of find_path
RECURSIVE searchLoop(_, _, _, _, _)
searchLoop(grid, q, open, came, iters) ==
    IF open = <<>> \/ iters >= grid.w * grid.h * 4 THEN [kind |-> "none", path |-> <<>>]
    ELSE LET p == heappop(open)
             node == p.item
         IN IF <<node.x, node.y>> = q.goal
            THEN [kind |-> "path", path |-> reconstruct(node)]
            ELSE LET r == relaxNeighbors(grid, q, node, neighbors(grid, node.x, node.y), 1, p.heap, came)
                 IN searchLoop(grid, q, r.heap, r.came, iters + 1)

\* variant of find_path without the passability guard on start and goal
find_path_unguarded(grid, q) ==
    IF ~in_bounds(grid, q.goal[1], q.goal[2]) \/ ~in_bounds(grid, q.start[1], q.start[2])
    THEN [kind |-> "none", path |-> <<>>]
    ELSE searchLoop(grid, q,
            heappush(<<>>, _Node(<<manhattan(q.start[1], q.start[2], q.goal[1], q.goal[2]), 0>>,
                                  <<0, 0>>, q.start[1], q.start[2], NoParent)).heap,
            [t \in {q.start} |-> <<0, 0>>], 0)

find_path(grid, q) ==
    IF ~in_bounds(grid, q.goal[1], q.goal[2]) \/ ~in_bounds(grid, q.start[1], q.start[2])
    THEN [kind |-> "none", path |-> <<>>]
    ELSE IF ~is_passable(grid, q.start[1], q.start[2], q.tags)
            \/ ~is_passable(grid, q.goal[1], q.goal[2], q.tags)
    THEN [kind |-> "none", path |-> <<>>]
    ELSE searchLoop(grid, q,
            heappush(<<>>, _Node(<<manhattan(q.start[1], q.start[2], q.goal[1], q.goal[2]), 0>>,
                                  <<0, 0>>, q.start[1], q.start[2], NoParent)).heap,
            [t \in {q.start} |-> <<0, 0>>], 0)

Pending == [kind |-> "pending", path |-> <<>>]

\* a grid, an agent and the tiles of a request (the tiles one step outside
\* the grid included)
AStarInit ==
    /\ \E size \in GridSizes, walls \in SUBSET TilesOf(3, 4), diag \in BOOLEAN :
          /\ walls \subseteq TilesOf(size[1], size[2])
          /\ Cardinality(walls) <= MaxWalls
          /\ aGrid = [w |-> size[1], h |-> size[2], walls |-> walls, diagonal |-> diag]
    /\ \E st \in TilesOf(aGrid.w + 1, aGrid.h), gl \in TilesOf(aGrid.w + 1, aGrid.h), tags \in TagSets :
          aQuery = [start |-> st, goal |-> gl, tags |-> tags]
    /\ aResult = Pending

AStarDefault ==
    /\ aGrid = [w |-> 0, h |-> 0, walls |-> {}, diagonal |-> FALSE]
    /\ aQuery = [start |-> <<0, 0>>, goal |-> <<0, 0>>, tags |-> {}]
    /\ aResult = Pending

AStarFrame == UNCHANGED <<qtVars, ecsVars, schedVars, fsmVars, btVars, goapVars, serviceVars>>

FindPath ==
    /\ aResult.kind = "pending"
    /\ aResult' = find_path(aGrid, aQuery)
    /\ UNCHANGED <<aGrid, aQuery>>
    /\ AStarFrame

NextAStar == FindPath

\* the tiles the agent may stand on
Passable == {t \in TilesOf(aGrid.w, aGrid.h) : is_passable(aGrid, t[1], t[2], aQuery.tags)}

\* one legal step between passable tiles, and its cost
IsStep(s, t) ==
    /\ s # t
    /\ Abs(s[1] - t[1]) <= 1 /\ Abs(s[2] - t[2]) <= 1
    /\ aGrid.diagonal \/ s[1] = t[1] \/ s[2] = t[2]
    /\ is_passable(aGrid, s[1], s[2], aQuery.tags)
    /\ is_passable(aGrid, t[1], t[2], aQuery.tags)

CostOfStep(s, t) == IF s[1] # t[1] /\ s[2] # t[2] THEN <<0, 1>> ELSE <<1, 0>>

Unreached == <<1000, 0>>

\* the cost of the cheapest valid path from the start to every reached tile,
\* as a set of <<tile, cost>>: relaxation (Bellman-Ford) up to its fixpoint
RECURSIVE Cheapest(_, _)
Cheapest(dist, tiles) ==
    LET cand == {<<t, CostAdd(e[2], CostOfStep(e[1], t))>> : e \in dist, t \in tiles} \cup dist
        ok == {c \in cand : c \in dist \/ \E e \in dist : IsStep(e[1], c[1])
                                                     /\ c[2] = CostAdd(e[2], CostOfStep(e[1], c[1]))}
        next == {c \in ok : \A d \in ok : d[1] = c[1] => ~CostLess(d[2], c[2])}
    IN IF next = dist THEN dist ELSE Cheapest(next, tiles)

CheapestToGoal ==
    IF aQuery.start \in Passable /\ aQuery.goal \in Passable
    THEN LET dist == Cheapest({<<aQuery.start, <<0, 0>> >>}, Passable)
             hit == {d \in dist : d[1] = aQuery.goal}
         IN IF hit = {} THEN Unreached ELSE (CHOOSE d \in hit : TRUE)[2]
    ELSE Unreached

RECURSIVE PathCost(_)
PathCost(path) ==
    IF Len(path) <= 1 THEN <<0, 0>>
    ELSE CostAdd(CostOfStep(path[1], path[2]), PathCost(Tail(path)))

\* C2: whenever a valid path from start to goal exists, find_path returns a
\* path whose cost (1 per orthogonal, sqrt(2) per diagonal step) is at most
\* the cost of every other valid path
C2_ReturnsCheapestPath ==
    (aResult.kind # "pending" /\ CheapestToGoal # Unreached) =>
        /\ aResult.kind = "path"
        /\ ~CostLess(CheapestToGoal, PathCost(aResult.path))

\* the tiles a walk of legal steps reaches from the tiles of S
RECURSIVE ReachableFrom(_)
ReachableFrom(S) ==
    LET more == {t \in Passable \ S : \E s \in S : IsStep(s, t)}
    IN IF more = {} THEN S ELSE ReachableFrom(S \cup more)

\* a valid path exists: start and goal are tiles of the grid the agent may
\* stand on, and legal steps lead from one to the other
Solvable ==
    /\ aQuery.start \in Passable
    /\ aQuery.goal \in ReachableFrom({aQuery.start})

C37_PathIsValid ==
    aResult.kind = "path" =>
        LET path == aResult.path
        IN /\ path # <<>>
           /\ path[1] = aQuery.start
           /\ path[Len(path)] = aQuery.goal
           /\ \A i \in 1..Len(path) : path[i] \in Passable
           /\ \A i \in 1..(Len(path) - 1) : IsStep(path[i], path[i + 1])
           /\ aQuery.start = aQuery.goal => path = <<aQuery.start>>

\* a path around a wall that takes a diagonal step
C37_Witness ==
    /\ aResult.kind = "path"
    /\ aGrid.walls # {} /\ "ghost" \notin aQuery.tags
    /\ Len(aResult.path) >= 3
    /\ \E i \in 1..(Len(aResult.path) - 1) :
           CostOfStep(aResult.path[i], aResult.path[i + 1]) = <<0, 1>>

(***************************************************************************)
(* Specifications                                                          *)
(***************************************************************************)
(***************************************************************************)
(* Brain (engine/behaviours/brain.py)                                      *)
(***************************************************************************)
EnemyIds == {1, 2, 3}

\* StrategyType.FSM / BT / GOAP and a string that is none of them
StrategyTypes == {"fsm", "bt", "goap"}
TypeArgs == StrategyTypes \cup {"other"}

\* the config argument: None, a dict that describes a tree, a dict with an
\* unknown leaf type, a dict whose leaf has no "fn", a Node, a callable, and
\* an object that is none of these
Configs == {"None", "dict", "dict_unknown_type", "dict_no_fn", "Node", "callable", "object"}

\* the (strategy_type, config) arguments of register_enemy; config is read
\* in the BT branch only
RegisterArgs ==
    {<<type, config>> : type \in {"bt"}, config \in Configs}
    \cup {<<type, "None">> : type \in TypeArgs}

\* the strategy the constructor calls of register_enemy build ("raise" when
\* one of them raises); only a behaviour tree depends on config
Strategy(type, config) ==
    CASE type = "fsm" -> [type |-> "fsm", root |-> "None"]
      [] type = "goap" -> [type |-> "goap", root |-> "None"]
      [] type = "bt" /\ config \in {"dict", "Node", "callable"} -> [type |-> "bt", root |-> config]
      [] OTHER -> "raise"

\* the exception register_enemy raises
RegisterError(type, config) ==
    CASE type \notin StrategyTypes -> "ValueError"
      [] type = "bt" /\ config = "None" -> "ValueError"
      [] type = "bt" /\ config = "object" -> "ValueError"
      [] type = "bt" /\ config = "dict_unknown_type" -> "ValueError"
      [] type = "bt" /\ config = "dict_no_fn" -> "KeyError"
      [] OTHER -> "none"

BrainIdle == [op |-> "none", raised |-> "none", ticked |-> <<>>]

BrainInit ==
    /\ brEnemies = <<>>
    /\ brLast = BrainIdle

BrainFrame == UNCHANGED <<qtVars, ecsVars, schedVars, fsmVars, btVars, goapVars, astarVars, bbVars, acVars, planVars>>

\* the position of the key id in the dict, 0 if it is not a key
KeyPos(items, id) ==
    IF \E i \in 1..Len(items) : items[i].id = id
    THEN CHOOSE i \in 1..Len(items) : items[i].id = id
    ELSE 0

\* self.enemies[id] = strategy: a new key goes last, an old key keeps its place
SetItem(items, id, strategy) ==
    IF KeyPos(items, id) = 0
    THEN Append(items, [id |-> id, strategy |-> strategy])
    ELSE [items EXCEPT ![KeyPos(items, id)].strategy = strategy]

\* register_enemy that stores the strategy without looking for the key
register_enemy_append(id, type, config) ==
    IF RegisterError(type, config) # "none"
    THEN /\ brLast' = [BrainIdle EXCEPT !.op = "register_enemy", !.raised = RegisterError(type, config)]
         /\ UNCHANGED brEnemies
    ELSE /\ brEnemies' = Append(brEnemies, [id |-> id, strategy |-> Strategy(type, config)])
         /\ brLast' = [BrainIdle EXCEPT !.op = "register_enemy"]

register_enemy(id, type, config) ==
    IF RegisterError(type, config) # "none"
    THEN /\ brLast' = [BrainIdle EXCEPT !.op = "register_enemy", !.raised = RegisterError(type, config)]
         /\ UNCHANGED brEnemies
    ELSE /\ brEnemies' = SetItem(brEnemies, id, Strategy(type, config))
         /\ brLast' = [BrainIdle EXCEPT !.op = "register_enemy"]

\* self.enemies.pop(enemy.id, None)
unregister_enemy(id) ==
    /\ brEnemies' = IF KeyPos(brEnemies, id) = 0 THEN brEnemies
                    ELSE RemoveAt(brEnemies, KeyPos(brEnemies, id))
    /\ brLast' = [BrainIdle EXCEPT !.op = "unregister_enemy"]

\* strategy.update(dt): BehaviourTree.update has the required parameters
\* agent and blackboard, so the call with dt alone raises TypeError before
\* the tree is ticked; StateMachine.update and GoapPlanner.update take dt
\* and run the callbacks of the strategy, which may raise
UpdateOutcomes(strategy) ==
    IF strategy.type = "bt" THEN {"TypeError"} ELSE {"returned", "raised"}

\* the loop of Brain.update from item i on; out gives the outcome of each
\* strategy.update call; returns [ticked, raised]
RECURSIVE brain_update(_, _, _, _)
brain_update(items, out, i, ticked) ==
    IF i > Len(items) THEN [ticked |-> ticked, raised |-> "none"]
    ELSE CASE out[i] = "TypeError" -> [ticked |-> ticked, raised |-> "TypeError"]
           [] out[i] = "raised" -> [ticked |-> Append(ticked, items[i].id), raised |-> "Exception"]
           [] OTHER -> brain_update(items, out, i + 1, Append(ticked, items[i].id))

BrainRegisterEnemy ==
    /\ \E id \in EnemyIds, a \in RegisterArgs : register_enemy(id, a[1], a[2])
    /\ BrainFrame

BrainUnregisterEnemy ==
    /\ \E id \in EnemyIds : unregister_enemy(id)
    /\ BrainFrame

BrainUpdate ==
    /\ \E out \in [1..Len(brEnemies) -> {"returned", "raised", "TypeError"}] :
          /\ \A i \in 1..Len(brEnemies) : out[i] \in UpdateOutcomes(brEnemies[i].strategy)
          /\ LET r == brain_update(brEnemies, out, 1, <<>>)
             IN brLast' = [op |-> "update", raised |-> r.raised, ticked |-> r.ticked]
    /\ UNCHANGED brEnemies
    /\ BrainFrame

NextBrain == BrainRegisterEnemy \/ BrainUnregisterEnemy \/ BrainUpdate

\* the registered ids, in the order of the dict
RegisteredIds == [i \in 1..Len(brEnemies) |-> brEnemies[i].id]

\* C26: an update call ticks every registered strategy exactly once,
\* whatever the mix of FSM, BT and GOAP strategies, and the tick of one
\* strategy does not keep another from being ticked
C26_EveryStrategyTickedOnce ==
    brLast.op = "update" => brLast.ticked = RegisteredIds

\* the strategy stored under id, a record of type "None" if id is not a key
StrategyOf(items, id) ==
    IF KeyPos(items, id) = 0 THEN [type |-> "None", root |-> "None"]
    ELSE items[KeyPos(items, id)].strategy

OneStrategyPerId ==
    \A i, j \in 1..Len(brEnemies) : brEnemies[i].id = brEnemies[j].id => i = j

C27_RegisterStep ==
    brLast'.op = "register_enemy" =>
        \A id \in EnemyIds, a \in RegisterArgs :
            register_enemy(id, a[1], a[2]) =>
                /\ (a[1] \notin StrategyTypes \/ a = <<"bt", "None">>) =>
                       /\ brLast'.raised = "ValueError"
                       /\ brEnemies' = brEnemies
                /\ brLast'.raised = "none" =>
                       /\ StrategyOf(brEnemies', id) = Strategy(a[1], a[2])
                       /\ \A other \in EnemyIds \ {id} :
                              StrategyOf(brEnemies', other) = StrategyOf(brEnemies, other)
                /\ brLast'.raised # "none" => brEnemies' = brEnemies

C27_UnregisterStep ==
    brLast'.op = "unregister_enemy" =>
        \A id \in EnemyIds :
            (KeyPos(brEnemies, id) = 0 /\ unregister_enemy(id)) =>
                brEnemies' = brEnemies /\ brLast'.raised = "none"

\* C27: the registry holds one strategy per id and a registration of a
\* registered id replaces its strategy; a registration with an unknown
\* strategy type, or of a BT without config, raises ValueError and leaves
\* the registry as it was; unregistering an id that is not registered
\* changes nothing and raises nothing
C27_RegistryOnePerId == []OneStrategyPerId /\ [][C27_RegisterStep /\ C27_UnregisterStep]_vars

\* a registration has just failed while ids 1 and 2 are registered, id 1
\* with a GOAP planner
C27_Witness ==
    /\ brLast.op = "register_enemy" /\ brLast.raised = "ValueError"
    /\ Len(brEnemies) = 2
    /\ StrategyOf(brEnemies, 1) = Strategy("goap", "None")
    /\ StrategyOf(brEnemies, 2) = Strategy("bt", "callable")

(***************************************************************************)
(* Blackboard (engine/behaviours/blackboard.py)                            *)
(***************************************************************************)
BbThreadIds == {1, 2}
BbKeys == {"x", "y"}
BbVals == {1}
BbAgentIds == {1, 2}

\* the calls a thread may make; agent 0 and key "" stand for "no argument"
BbCallOf(name, agent, key, val) == [name |-> name, agent |-> agent, key |-> key, val |-> val]

BbOps ==
    {BbCallOf("set", 0, k, v) : k \in BbKeys, v \in BbVals}
    \cup {BbCallOf(n, 0, k, 0) : n \in {"get", "remove"}, k \in BbKeys}
    \cup {BbCallOf("set_for", a, k, v) : a \in BbAgentIds, k \in BbKeys, v \in BbVals}
    \cup {BbCallOf(n, a, k, 0) : n \in {"get_for", "remove_for"}, a \in BbAgentIds, k \in BbKeys}
    \cup {BbCallOf("clear_agent", a, "", 0) : a \in BbAgentIds}
    \cup {BbCallOf("debug_dump", 0, "", 0)}

\* the two dicts of a Blackboard
BbStore(global, agents) == [global |-> global, agents |-> agents]

\* what a call has computed so far: the store, the next position in the body
\* of the with block, its local value and its return value
BbRun(store, pc, loc, ret) == [store |-> store, pc |-> pc, loc |-> loc, ret |-> ret]

\* return values: None, a stored value (NoneVal for the default None), the
\* dict of debug_dump, an exception
BbReturn(kind, val, global, per_agent) ==
    [kind |-> kind, val |-> val, global |-> global, per_agent |-> per_agent]
BbNone == BbReturn("None", NoneVal, EmptyDict, EmptyDict)
BbValue(v) == BbReturn("value", v, EmptyDict, EmptyDict)
BbDump(global, per_agent) == BbReturn("dict", NoneVal, global, per_agent)
BbRaised(exc) == BbReturn(exc, NoneVal, EmptyDict, EmptyDict)

\* the local value of a call: the result of "agent_id not in self._per_agent"
\* in set_for, the copy of _global in debug_dump
BbLocal(missing, copy) == [missing |-> missing, copy |-> copy]
BbTested(missing) == BbLocal(missing, EmptyDict)
BbCopied(copy) == BbLocal(FALSE, copy)

\* the body of the with block of each method, one dict access at a time;
\* r is the run so far
set(op, r) ==
    BbRun([r.store EXCEPT !.global = DictSet(@, op.key, op.val)], "exit", r.loc, BbNone)

get(op, r) == BbRun(r.store, "exit", r.loc, BbValue(Get(r.store.global, op.key)))

\* Blackboard.remove
bb_remove(op, r) ==
    BbRun([r.store EXCEPT !.global = IF op.key \in DOMAIN @ THEN DictPop(@, op.key) ELSE @],
          "exit", r.loc, BbNone)

set_for(op, r) ==
    CASE r.pc = "body1" -> BbRun(r.store, "body2", BbTested(op.agent \notin DOMAIN r.store.agents), r.ret)
      [] r.pc = "body2" ->
            BbRun(IF r.loc.missing THEN [r.store EXCEPT !.agents = DictSet(@, op.agent, EmptyDict)]
                           ELSE r.store,
                  "body3", r.loc, r.ret)
      [] OTHER ->
            IF op.agent \in DOMAIN r.store.agents
            THEN BbRun([r.store EXCEPT !.agents[op.agent] = DictSet(@, op.key, op.val)],
                       "exit", r.loc, BbNone)
            ELSE BbRun(r.store, "exit", r.loc, BbRaised("KeyError"))

\* get_for that enters an empty scope for an unknown agent
get_for_setdefault(op, r) ==
    LET agents == IF op.agent \in DOMAIN r.store.agents THEN r.store.agents
                  ELSE DictSet(r.store.agents, op.agent, EmptyDict)
    IN BbRun([r.store EXCEPT !.agents = agents], "exit", r.loc, BbValue(Get(agents[op.agent], op.key)))

get_for(op, r) ==
    BbRun(r.store, "exit", r.loc,
          BbValue(Get(IF op.agent \in DOMAIN r.store.agents THEN r.store.agents[op.agent]
                      ELSE EmptyDict, op.key)))

remove_for(op, r) ==
    IF op.agent \in DOMAIN r.store.agents /\ op.key \in DOMAIN r.store.agents[op.agent]
    THEN BbRun([r.store EXCEPT !.agents[op.agent] = DictPop(@, op.key)], "exit", r.loc, BbNone)
    ELSE BbRun(r.store, "exit", r.loc, BbNone)

clear_agent(op, r) ==
    BbRun([r.store EXCEPT !.agents = IF op.agent \in DOMAIN @ THEN DictPop(@, op.agent) ELSE @],
          "exit", r.loc, BbNone)

debug_dump(op, r) ==
    IF r.pc = "body1" THEN BbRun(r.store, "body2", BbCopied(r.store.global), r.ret)
    ELSE BbRun(r.store, "exit", r.loc, BbDump(r.loc.copy, r.store.agents))

\* one step of the body of a call
BbBody(op, r) ==
    CASE op.name = "set" -> set(op, r)
      [] op.name = "get" -> get(op, r)
      [] op.name = "remove" -> bb_remove(op, r)
      [] op.name = "set_for" -> set_for(op, r)
      [] op.name = "get_for" -> get_for(op, r)
      [] op.name = "remove_for" -> remove_for(op, r)
      [] op.name = "clear_agent" -> clear_agent(op, r)
      [] OTHER -> debug_dump(op, r)

\* the call executed alone, from the first step of its body to the last
RECURSIVE BbAlone(_, _)
BbAlone(op, r) == IF r.pc = "exit" THEN r ELSE BbAlone(op, BbBody(op, r))

BbNoOp == BbCallOf("none", 0, "", 0)
BbIdle == [pc |-> "idle", op |-> BbNoOp, loc |-> BbTested(FALSE),
           snap |-> BbStore(EmptyDict, EmptyDict), ret |-> BbNone]

BbInit ==
    /\ bbGlobal = EmptyDict
    /\ bbAgents = EmptyDict
    /\ bbLock = 0
    /\ bbThreads = [t \in BbThreadIds |-> BbIdle]

BbFrame == UNCHANGED <<qtVars, ecsVars, schedVars, fsmVars, btVars, goapVars, astarVars, brainVars, acVars, planVars>>

\* Lock.__enter__ that does not wait for the holder
lock_enter_nowait(t) == bbLock' = t

\* threading.Lock.__enter__: blocks while another thread holds the lock
lock_enter(t) == bbLock = 0 /\ bbLock' = t

\* a thread calls a method of the blackboard and reaches its with statement
BbCall(t) ==
    /\ bbThreads[t].pc = "idle"
    /\ \E op \in BbOps : bbThreads' = [bbThreads EXCEPT ![t] = [BbIdle EXCEPT !.pc = "with", !.op = op]]
    /\ UNCHANGED <<bbGlobal, bbAgents, bbLock>>
    /\ BbFrame

BbLockEnter(t) ==
    /\ bbThreads[t].pc = "with"
    /\ lock_enter(t)
    /\ bbThreads' = [bbThreads EXCEPT ![t].pc = "body1", ![t].snap = BbStore(bbGlobal, bbAgents)]
    /\ UNCHANGED <<bbGlobal, bbAgents>>
    /\ BbFrame

BbStep(t) ==
    /\ bbThreads[t].pc \in {"body1", "body2", "body3"}
    /\ LET th == bbThreads[t]
           r == BbBody(th.op, BbRun(BbStore(bbGlobal, bbAgents), th.pc, th.loc, th.ret))
       IN /\ bbGlobal' = r.store.global
          /\ bbAgents' = r.store.agents
          /\ bbThreads' = [bbThreads EXCEPT ![t].pc = r.pc, ![t].loc = r.loc, ![t].ret = r.ret]
    /\ UNCHANGED bbLock
    /\ BbFrame

\* Lock.__exit__ and the return of the call
BbLockExit(t) ==
    /\ bbThreads[t].pc = "exit"
    /\ bbLock' = 0
    /\ bbThreads' = [bbThreads EXCEPT ![t] = BbIdle]
    /\ UNCHANGED <<bbGlobal, bbAgents>>
    /\ BbFrame

NextBB == \E t \in BbThreadIds : BbCall(t) \/ BbLockEnter(t) \/ BbStep(t) \/ BbLockExit(t)

\* C28: every call takes effect atomically: when a call has finished its
\* body, the blackboard and the return value are what the call alone
\* produces from the contents it found when it entered, whatever the other
\* threads did meanwhile; so the contents always equal those of the calls
\* made so far in the order in which they entered, and of two set_for calls
\* on an agent without scope neither write is lost
C28_CallsAtomic ==
    \A t \in BbThreadIds :
        bbThreads[t].pc = "exit" =>
            LET alone == BbAlone(bbThreads[t].op, BbRun(bbThreads[t].snap, "body1", BbTested(FALSE), BbNone))
            IN /\ BbStore(bbGlobal, bbAgents) = alone.store
               /\ bbThreads[t].ret = alone.ret
               /\ bbThreads[t].ret.kind # "KeyError"

\* thread 2 has finished the body of set_for(1, "y", 1) on the scope that
\* set_for(1, "x", 1) created, while thread 1 is already in its next call:
\* both keys are there
C28_Witness ==
    /\ bbThreads[2].pc = "exit" /\ bbThreads[2].op = BbCallOf("set_for", 1, "y", 1)
    /\ bbThreads[2].snap.agents = DictSet(EmptyDict, 1, DictSet(EmptyDict, "x", 1))
    /\ bbThreads[1].pc = "with"
    /\ 1 \in DOMAIN bbAgents /\ DOMAIN bbAgents[1] = {"x", "y"}

\* agent b has the same scope, or no scope, in both stores
SameScope(before, after, b) ==
    /\ b \in DOMAIN after.agents <=> b \in DOMAIN before.agents
    /\ b \in DOMAIN after.agents => after.agents[b] = before.agents[b]

\* C29: a set_for, get_for, remove_for or clear_agent on an agent changes
\* neither the global scope nor the scope of another agent; a global call
\* changes no agent scope; an agent scope comes into existence only by a
\* set_for on that agent
C29_ScopesIndependent ==
    \A t \in BbThreadIds :
        bbThreads[t].pc = "exit" =>
            LET op == bbThreads[t].op
                before == bbThreads[t].snap
                after == BbStore(bbGlobal, bbAgents)
            IN /\ op.agent # 0 =>
                     /\ after.global = before.global
                     /\ \A b \in BbAgentIds \ {op.agent} : SameScope(before, after, b)
               /\ op.agent = 0 => after.agents = before.agents
               /\ \A a \in DOMAIN after.agents \ DOMAIN before.agents :
                     op.name = "set_for" /\ op.agent = a
               /\ op.name = "set_for" =>
                     /\ op.agent \in DOMAIN after.agents
                     /\ after.agents[op.agent][op.key] = op.val

\* set_for(2, "x", 1) has just created the scope of agent 2 next to the
\* global key "x" and the scope of agent 1, which holds "y"
C29_Witness ==
    \E t \in BbThreadIds :
        /\ bbThreads[t].pc = "exit" /\ bbThreads[t].op = BbCallOf("set_for", 2, "x", 1)
        /\ DOMAIN bbThreads[t].snap.agents = {1}
        /\ bbGlobal = DictSet(EmptyDict, "x", 1)
        /\ DOMAIN bbAgents = {1, 2}
        /\ bbAgents[1] = DictSet(EmptyDict, "y", 1)
        /\ bbAgents[2] = DictSet(EmptyDict, "x", 1)

(***************************************************************************)
(* AgentController (engine/world/navigation.py)                            *)
(***************************************************************************)
\* tile_size and SteeringConfig.arrive_radius, scaled from 16 and 8.0
TileSize == 2
ArriveRadius == 1

\* the grids of the controller's pathfinder: 2x2 tiles, no diagonal steps
AcWallSets == {{}, {<<1, 0>>}, {<<1, 0>>, <<0, 1>>}}

\* pixel positions: the pixels of the grid and one column and row beyond
PxSet == {<<x, y>> : x \in 0..(2 * TileSize), y \in 0..(2 * TileSize)}

\* the pixel arguments of move_to: the tile centres, a tile corner and a
\* pixel right of the grid
MovePxSet == {<<1, 1>>, <<3, 1>>, <<1, 3>>, <<3, 3>>, <<0, 0>>, <<2 * TileSize, 1>>}

NoTarget == <<>>

\* int(px // tile_size) per coordinate
ToTile(px) == <<px[1] \div TileSize, px[2] \div TileSize>>

\* ((tx + 0.5) * tile_size, (ty + 0.5) * tile_size)
TileCentre(tile) ==
    <<tile[1] * TileSize + TileSize \div 2, tile[2] * TileSize + TileSize \div 2>>

\* vec_len(vec_sub(a, b)) < num / den * ArriveRadius, by squares
Within(a, b, num, den) ==
    den * den * ((a[1] - b[1]) * (a[1] - b[1]) + (a[2] - b[2]) * (a[2] - b[2]))
        < num * num * ArriveRadius * ArriveRadius

AcIdle == [op |-> "none", ret |-> FALSE, arrived |-> FALSE, followed |-> <<>>, failed |-> FALSE]

AcDefault ==
    /\ acPathTiles = <<>>
    /\ acPathPx = <<>>
    /\ acPathIdx = 0
    /\ acMoving = FALSE
    /\ acTarget = NoTarget
    /\ acLast = AcIdle

\* a controller on a 2x2 grid; aQuery.tags holds the agent_tags
AcInit ==
    /\ AcDefault
    /\ \E walls \in AcWallSets : aGrid = [w |-> 2, h |-> 2, walls |-> walls, diagonal |-> FALSE]
    /\ \E tags \in TagSets : aQuery = [start |-> <<0, 0>>, goal |-> <<0, 0>>, tags |-> tags]
    /\ aResult = Pending

AcFrame == UNCHANGED <<qtVars, ecsVars, schedVars, fsmVars, btVars, goapVars, brainVars, bbVars, aGrid, planVars>>

\* move_to that leaves the controller as it was when no path is found
move_to_keep(start_px, goal_px) ==
    LET q == [start |-> ToTile(start_px), goal |-> ToTile(goal_px), tags |-> aQuery.tags]
        path == find_path(aGrid, q)
    IN /\ aQuery' = q
       /\ aResult' = path
       /\ IF path.kind # "path" \/ path.path = <<>>
          THEN /\ UNCHANGED <<acPathTiles, acPathPx, acMoving, acPathIdx, acTarget>>
               /\ acLast' = [AcIdle EXCEPT !.op = "move_to", !.failed = TRUE]
          ELSE /\ acPathTiles' = path.path
               /\ acPathPx' = [i \in 1..Len(path.path) |-> TileCentre(path.path[i])]
               /\ acPathIdx' = 0
               /\ acMoving' = TRUE
               /\ acTarget' = goal_px
               /\ acLast' = [AcIdle EXCEPT !.op = "move_to", !.ret = TRUE]

move_to(start_px, goal_px) ==
    LET q == [start |-> ToTile(start_px), goal |-> ToTile(goal_px), tags |-> aQuery.tags]
        path == find_path(aGrid, q)
    IN /\ aQuery' = q
       /\ aResult' = path
       /\ IF path.kind # "path" \/ path.path = <<>>
          THEN /\ acPathTiles' = <<>>
               /\ acPathPx' = <<>>
               /\ acMoving' = FALSE
               /\ UNCHANGED <<acPathIdx, acTarget>>
               /\ acLast' = [AcIdle EXCEPT !.op = "move_to", !.failed = TRUE]
          ELSE /\ acPathTiles' = path.path
               /\ acPathPx' = [i \in 1..Len(path.path) |-> TileCentre(path.path[i])]
               /\ acPathIdx' = 0
               /\ acMoving' = TRUE
               /\ acTarget' = goal_px
               /\ acLast' = [AcIdle EXCEPT !.op = "move_to", !.ret = TRUE]

\* SteeringBehaviour.follow_path: the index of the waypoint steered to
follow_path(pos, path, current_wp_idx) ==
    LET last == Len(path) - 1
        wp_idx == IF current_wp_idx < last THEN current_wp_idx ELSE last
    IN IF Within(path[wp_idx + 1], pos, 6, 5)
       THEN (IF wp_idx + 1 < last THEN wp_idx + 1 ELSE last)
       ELSE wp_idx

\* update(pos_px, vel_px, dt, obstacles): the waypoint followed, the arrival
\* test and the cursor; the velocity computed from them is left out
ac_update(pos) ==
    LET follows == acPathPx # <<>>
        wp_idx == IF follows THEN follow_path(pos, acPathPx, acPathIdx) ELSE acPathIdx
        arrived == acMoving /\ acTarget # NoTarget /\ Within(acTarget, pos, 1, 1)
    IN /\ acPathIdx' = wp_idx
       /\ IF arrived
          THEN /\ acPathTiles' = <<>>
               /\ acPathPx' = <<>>
               /\ acMoving' = FALSE
               /\ acTarget' = NoTarget
          ELSE UNCHANGED <<acPathTiles, acPathPx, acMoving, acTarget>>
       /\ acLast' = [op |-> "update", ret |-> FALSE, arrived |-> arrived,
                     followed |-> IF follows THEN acPathPx[wp_idx + 1] ELSE <<>>,
                     failed |-> acLast.failed]

AcMoveTo ==
    /\ \E start_px \in MovePxSet, goal_px \in MovePxSet : move_to(start_px, goal_px)
    /\ AcFrame

\* stop()
AcStop ==
    /\ acPathTiles' = <<>>
    /\ acPathPx' = <<>>
    /\ acMoving' = FALSE
    /\ acTarget' = NoTarget
    /\ acLast' = [AcIdle EXCEPT !.op = "stop", !.failed = acLast.failed]
    /\ UNCHANGED <<acPathIdx, aQuery, aResult>>
    /\ AcFrame

AcUpdate ==
    /\ \E pos \in PxSet : ac_update(pos)
    /\ UNCHANGED <<aQuery, aResult>>
    /\ AcFrame

NextAC == AcMoveTo \/ AcStop \/ AcUpdate

\* C30: move_to returns true exactly when the pathfinder found a path and
\* then stores the centres of its tiles with the cursor at 0; when it
\* returns false the stored path is empty and the controller is not moving,
\* and every update call made before the next successful move_to follows
\* no waypoint and reports no arrival
C30_MoveToClearsOnFailure ==
    /\ acLast.op = "move_to" =>
          /\ acLast.ret <=> aResult.kind = "path"
          /\ acLast.ret =>
                /\ acPathTiles = aResult.path
                /\ acPathPx = [i \in 1..Len(aResult.path) |-> TileCentre(aResult.path[i])]
                /\ acPathIdx = 0
          /\ ~acLast.ret => acPathTiles = <<>> /\ acPathPx = <<>> /\ ~acMoving
    /\ (acLast.op = "update" /\ acLast.failed) =>
          acLast.followed = <<>> /\ ~acLast.arrived

\* an update after a move_to that failed while an earlier path had been
\* followed to its second waypoint: the cursor and the target of that path
\* are still set
C30_Witness ==
    /\ acLast.op = "update" /\ acLast.failed
    /\ acPathIdx > 0 /\ acTarget # NoTarget
    /\ acPathPx = <<>>

Others(S) == /\ (S = "QT" \/ QtDefault) /\ (S \in {"ECS", "View"} \/ EcsInit) /\ (S \in {"Sched", "Render"} \/ SchedInit)
             /\ (S = "FSM" \/ FsmDefault) /\ (S = "BT" \/ BtDefault) /\ (S \in {"GOAP", "Plan"} \/ GoapDefault)
             /\ (S \in {"AStar", "AC"} \/ AStarDefault) /\ (S = "Brain" \/ BrainInit)
             /\ (S = "BB" \/ BbInit) /\ (S = "AC" \/ AcDefault)
             /\ (S = "Plan" \/ PlanIdle)

InitQT == QtInit /\ Others("QT")

SpecQT == InitQT /\ [][NextQT]_vars

InitECS == EcsInit /\ Others("ECS")

SpecECS == InitECS /\ [][NextECS]_vars

InitSpatial == Others("Spatial")

SpecSpatial == InitSpatial /\ [][NextSpatial]_vars

InitView == ViewInit /\ Others("View")

SpecView == InitView /\ [][NextView]_vars

InitSched == SchedInit /\ Others("Sched")

SpecSched == InitSched /\ [][NextSched]_vars

InitRender == RenderInit /\ Others("Render")

SpecRender == InitRender /\ [][NextRender]_vars

InitFSM == FsmInit /\ Others("FSM")

SpecFSM == InitFSM /\ [][NextFSM]_vars

InitBT == BtInit /\ Others("BT")

SpecBT == InitBT /\ [][NextBT]_vars

InitGOAP == GoapInit /\ Others("GOAP")

SpecGOAP == InitGOAP /\ [][NextGOAP]_vars

InitBrain == BrainInit /\ Others("Brain")

SpecBrain == InitBrain /\ [][NextBrain]_vars

InitBB == BbInit /\ Others("BB")

SpecBB == InitBB /\ [][NextBB]_vars

InitAC == AcInit /\ Others("AC")

SpecAC == InitAC /\ [][NextAC]_vars

InitPlan == PlanInit /\ Others("Plan")

SpecPlan == InitPlan /\ [][NextPlan]_vars

\* the while loop of plan runs on the calling thread and waits for nothing
SpecPlanFair == InitPlan /\ [][NextPlan]_vars /\ WF_vars(PlanIterate) /\ WF_vars(PlanExhausted)

InitAStar == AStarInit /\ Others("AStar")

SpecAStar == InitAStar /\ [][NextAStar]_vars

====
